---- MODULE Spec2Model ----
(***************************************************************************)
(* Playlist import and Apple Music resolution pipeline of song-game.       *)
(*                                                                         *)
(*   convex/spotifyInternal.ts        upsertPlaylistWithTracks             *)
(*   convex/playlistImportInternal.ts getPendingTracks, markTrackReady,    *)
(*                                    markTrackUnmatched,                  *)
(*                                    updatePlaylistCounts                 *)
(*   convex/playlists.ts              listMine, get                        *)
(*   convex/convex.config.ts          resolveTrackToAppleMusic,            *)
(*                                    processPlaylistBatch, normalizeString,*)
(*                                    stringsSimilar                       *)
(*                                                                         *)
(* and the client's play-game store:                                       *)
(*                                                                         *)
(*   src/hooks/use-sync-game-to-store.ts  the functions of the store that  *)
(*                                    write game, timelines, dnd or action *)
(*                                                                         *)
(* JavaScript strings that are compared letter by letter (titles, artist   *)
(* names) are sequences of UTF-16 code units: a one-character string for a *)
(* code unit up to U+00FF, the string "U+XXXX" for a code unit above.      *)
(* Opaque strings (ids, URLs, ISRCs) are TLA+ strings, with Undefined for  *)
(* an absent optional field. An optional number is the empty set or a      *)
(* one-element set.                                                        *)
(***************************************************************************)
EXTENDS Integers, Sequences, FiniteSets, TLC

VARIABLES
    playlists,    \* table 'playlists': sequence of documents, _id = index
    tracks,       \* table 'playlistTracks': set of documents
    nextTrackId,  \* _id (and creation order) of the next inserted track
    runs,         \* processPlaylistBatch invocations, scheduled or in flight
    imports,      \* number of upsertPlaylistWithTracks calls made so far
    lastCall,     \* the mutation or query that returned last, with its arguments
    rIn,          \* resolveTrackToAppleMusic: arguments and catalog answers
    rOut,         \* resolveTrackToAppleMusic: what the call returned
    trace,        \* what the batch runs did so far, in order
    store,        \* the play-game store: game, timelines, dnd, action
    wrapped       \* the calls of wrapAction: not made, pending or settled

vars == <<playlists, tracks, nextTrackId, runs, imports, lastCall, rIn, rOut, trace,
          store, wrapped>>

\* the state of the client, which the server functions do not touch
storeVars == <<store, wrapped>>

pipelineVars == <<playlists, tracks, nextTrackId, runs, imports, lastCall>>

resolverVars == <<rIn, rOut>>

\* what the batch runs, the mutations and the queries do not write
observerVars == <<rIn, rOut, trace, storeVars>>

(***************************************************************************)
(* Bounds of the model                                                     *)
(***************************************************************************)
\* upsertPlaylistWithTracks calls in one behaviour
MaxImports == 2

\* tracks in one imported list
MaxTracks == 2

\* candidates in one searchCatalog answer (the code asks for at most `limit`)
MaxCands == 2

\* pending tracks of the playlist whose batches are counted
MaxBatchTracks == 25

\* characters in a string handed to normalizeString
MaxStrLen == 5

\* crashes of batch runs in one behaviour
MaxCrashes == 1

\* calls of wrapAction in one behaviour
MaxWrapped == 2

(***************************************************************************)
(* Program constants                                                       *)
(***************************************************************************)
BATCH_SIZE == 10

SearchLimit == 5

MYSTERY_CARD_ID == "mystery-card"

Undefined == "undefined"

\* null, as a query returns it and as the store holds it
Null == [kind |-> "null"]

(***************************************************************************)
(* Sequence helpers                                                        *)
(***************************************************************************)
SeqsUpTo(S, n) == UNION {[1..k -> S] : k \in 0..n}

Max(a, b) == IF a >= b THEN a ELSE b

Min(a, b) == IF a <= b THEN a ELSE b

Range(s) == {s[i] : i \in DOMAIN s}

(***************************************************************************)
(* Normalizer: normalizeString and stringsSimilar                          *)
(***************************************************************************)
UpperLetters ==
    <<"A", "B", "C", "D", "E", "F", "G", "H", "I", "J", "K", "L", "M",
      "N", "O", "P", "Q", "R", "S", "T", "U", "V", "W", "X", "Y", "Z">>

LowerLetters ==
    <<"a", "b", "c", "d", "e", "f", "g", "h", "i", "j", "k", "l", "m",
      "n", "o", "p", "q", "r", "s", "t", "u", "v", "w", "x", "y", "z">>

Digits == {"0", "1", "2", "3", "4", "5", "6", "7", "8", "9"}

\* the class \w of a JavaScript regular expression: [A-Za-z0-9_]
IsWordChar(c) == c \in Range(UpperLetters) \cup Range(LowerLetters) \cup Digits \cup {"_"}

\* the class \s, which is also the white space of trim: space, \t, \n, \r,
\* \f, \v, U+00A0, U+1680, U+2000 to U+200A, U+2028, U+2029, U+202F, U+205F,
\* U+3000 and U+FEFF
IsSpaceChar(c) ==
    c \in {" ", "\t", "\n", "\r", "\f", "", " ", "U+1680",
           "U+2000", "U+2001", "U+2002", "U+2003", "U+2004", "U+2005", "U+2006", "U+2007", "U+2008",
           "U+2009", "U+200A", "U+2028", "U+2029", "U+202F", "U+205F", "U+3000", "U+FEFF"}

\* .replace(/[^\w\s]/g, ''): what is neither a word character nor white space
\* is dropped
KeepWordOrSpace(c) == IsWordChar(c) \/ IsSpaceChar(c)

\* str.toLowerCase().replace(/[^\w\s]/g, ''), for one code unit of str: the
\* code units that are left of it. toLowerCase leaves word characters other
\* than A to Z and white space as they are, and it turns A to Z into a to z,
\* U+212A (Kelvin sign) into k and U+0130 into i and U+0307, of which the
\* replace keeps the i. Whatever it makes of any other code unit, alone, in
\* a surrogate pair or by its place in a word (the final sigma), is outside
\* ASCII and no white space, and the replace drops it.
LowerWordOrSpace(c) ==
    IF c \in Range(UpperLetters)
    THEN <<LowerLetters[CHOOSE i \in DOMAIN UpperLetters : UpperLetters[i] = c]>>
    ELSE IF c = "U+212A" THEN <<"k">>
    ELSE IF c = "U+0130" THEN <<"i">>
    ELSE IF KeepWordOrSpace(c) THEN <<c>>
    ELSE <<>>

RECURSIVE LowerAndStrip(_)
LowerAndStrip(s) ==
    IF s = <<>> THEN <<>> ELSE LowerWordOrSpace(Head(s)) \o LowerAndStrip(Tail(s))

\* .replace(/\s+/g, ' '): every maximal run of white space becomes one space
RECURSIVE CollapseSpaces(_)
CollapseSpaces(s) ==
    IF s = <<>> THEN <<>>
    ELSE IF IsSpaceChar(Head(s))
         THEN IF Len(s) > 1 /\ IsSpaceChar(s[2])
              THEN CollapseSpaces(Tail(s))
              ELSE <<" ">> \o CollapseSpaces(Tail(s))
         ELSE <<Head(s)>> \o CollapseSpaces(Tail(s))

RECURSIVE TrimStart(_)
TrimStart(s) ==
    IF s # <<>> /\ IsSpaceChar(Head(s)) THEN TrimStart(Tail(s)) ELSE s

RECURSIVE TrimEnd(_)
TrimEnd(s) ==
    IF s # <<>> /\ IsSpaceChar(s[Len(s)])
    THEN TrimEnd(SubSeq(s, 1, Len(s) - 1))
    ELSE s

\* String.prototype.trim
Trim(s) == TrimEnd(TrimStart(s))

\* mutant of normalizeString: white space is collapsed before the punctuation
\* is removed
normalizeStringCollapseFirst(str) ==
    Trim(LowerAndStrip(CollapseSpaces(str)))

normalizeString(str) == Trim(CollapseSpaces(LowerAndStrip(str)))

\* mutant of Includes: the empty string occurs in no string
IncludesNonEmpty(a, b) ==
    /\ b # <<>>
    /\ \E i \in 0..(Len(a) - Len(b)) : SubSeq(a, i + 1, i + Len(b)) = b

\* mutant of Includes: b occurs at the start of a
IncludesAtStart(a, b) == Len(b) <= Len(a) /\ SubSeq(a, 1, Len(b)) = b

\* String.prototype.includes: b occurs in a as a contiguous substring
Includes(a, b) ==
    \E i \in 0..(Len(a) - Len(b)) : SubSeq(a, i + 1, i + Len(b)) = b

\* String.prototype.split(' '): the pieces between spaces, empty pieces kept
RECURSIVE SplitOnSpace(_, _)
SplitOnSpace(s, cur) ==
    IF s = <<>> THEN <<cur>>
    ELSE IF Head(s) = " " THEN <<cur>> \o SplitOnSpace(Tail(s), <<>>)
         ELSE SplitOnSpace(Tail(s), Append(cur, Head(s)))

WordSet(s) == Range(SplitOnSpace(s, <<>>))

\* mutant of WordOverlapEnough: matchRatio > 0.8
WordOverlapAbove(a, b) ==
    5 * Cardinality(WordSet(a) \cap WordSet(b))
        > 4 * Max(Cardinality(WordSet(a)), Cardinality(WordSet(b)))

\* matchRatio >= 0.8 with matchRatio = |A \cap B| / max(|A|, |B|)
WordOverlapEnough(a, b) ==
    LET wordsA == WordSet(a)
        wordsB == WordSet(b)
        intersection == wordsA \cap wordsB
    IN  5 * Cardinality(intersection)
            >= 4 * Max(Cardinality(wordsA), Cardinality(wordsB))

stringsSimilar(a, b) ==
    \/ a = b
    \/ Includes(a, b) \/ Includes(b, a)
    \/ WordOverlapEnough(a, b)

(***************************************************************************)
(* Target catalog: what searchByISRC and searchCatalog can answer          *)
(***************************************************************************)
Entry(id, title, artistName, previewUrl, isrc) ==
    [appleMusicId |-> id, title |-> title, artistName |-> artistName,
     albumName |-> "album", releaseYear |-> 1999, releaseDate |-> Undefined,
     previewUrl |-> previewUrl, artworkUrl |-> "art", isrc |-> isrc]

\* "ab c" by "xy!"
EntryBoth == Entry("am1", <<"a", "b", " ", "c">>, <<"x", "y", "!">>, "prev1", "USX")

\* "Ab c d" by "zz": the title resembles "Ab c", the artist does not resemble "Xy"
EntryTitleOnly == Entry("am2", <<"A", "b", " ", "c", " ", "d">>, <<"z", "z">>, Undefined, Undefined)

\* "q" by "XY": the artist resembles "Xy", the title does not resemble "Ab c"
EntryArtistOnly == Entry("am3", <<"q">>, <<"X", "Y">>, "prev3", Undefined)

\* "!" by "?": both normalize to the empty string
EntryBlank == Entry("am4", <<"!">>, <<"?">>, Undefined, Undefined)

Catalog == {EntryBoth, EntryTitleOnly, EntryArtistOnly, EntryBlank}

Throws == [kind |-> "throws"]

\* searchByISRC: throws, or returns null (hit = <<>>) or one entry
IsrcAnswers ==
    {Throws} \cup {[kind |-> "returns", hit |-> h] : h \in SeqsUpTo(Catalog, 1)}

\* searchCatalog: throws, or returns a ranked list of candidates
SearchAnswers ==
    {Throws} \cup
    {[kind |-> "returns", results |-> c] : c \in SeqsUpTo(Catalog, Min(MaxCands, SearchLimit))}

(***************************************************************************)
(* Resolver: resolveTrackToAppleMusic                                      *)
(***************************************************************************)
\* JavaScript truthiness of an optional string
TruthyString(x) == x # Undefined /\ x # ""

\* JavaScript truthiness of an optional number
TruthyNumber(y) == y # {} /\ y # {0}

MatchedFrom(e) ==
    [matched |-> TRUE, appleMusicId |-> e.appleMusicId, title |-> e.title,
     artistName |-> e.artistName, albumName |-> e.albumName,
     releaseYear |-> e.releaseYear, releaseDate |-> e.releaseDate,
     previewUrl |-> e.previewUrl, artworkUrl |-> e.artworkUrl, isrc |-> e.isrc]

UnmatchedFor(reason) == [matched |-> FALSE, reason |-> reason]

\* mutant of CandidatePasses: a similar title or a similar artist is enough
CandidatePassesEither(normalizedTitle, normalizedArtist, result) ==
    \/ stringsSimilar(normalizedTitle, normalizeString(result.title))
    \/ stringsSimilar(normalizedArtist, normalizeString(result.artistName))

\* the test of the for loop over searchResults
CandidatePasses(normalizedTitle, normalizedArtist, result) ==
    /\ stringsSimilar(normalizedTitle, normalizeString(result.title))
    /\ stringsSimilar(normalizedArtist, normalizeString(result.artistName))

\* mutant of BestGuess: a low-confidence answer is rejected
BestGuessRejects(searchResults) == UnmatchedFor("Low confidence")

\* the for loop: the first candidate that passes, else the first candidate
BestGuess(searchResults) == MatchedFrom(searchResults[1])

RECURSIVE ScanCandidates(_, _, _, _)
ScanCandidates(rest, normalizedTitle, normalizedArtist, searchResults) ==
    IF rest = <<>> THEN BestGuess(searchResults)
    ELSE IF CandidatePasses(normalizedTitle, normalizedArtist, Head(rest))
         THEN MatchedFrom(Head(rest))
         ELSE ScanCandidates(Tail(rest), normalizedTitle, normalizedArtist, searchResults)

\* mutant of TextSearch: a search that throws is reported as an empty answer
TextSearchOneReason(args, searchAnswer) ==
    IF searchAnswer.kind = "throws" THEN UnmatchedFor("No results found")
    ELSE IF Len(searchAnswer.results) = 0 THEN UnmatchedFor("No results found")
    ELSE ScanCandidates(searchAnswer.results, normalizeString(args.title),
                        normalizeString(args.artist), searchAnswer.results)

\* step 2, the try block around searchCatalog
TextSearch(args, searchAnswer) ==
    IF searchAnswer.kind = "throws" THEN UnmatchedFor("Search failed")
    ELSE IF Len(searchAnswer.results) = 0 THEN UnmatchedFor("No results found")
    ELSE ScanCandidates(searchAnswer.results, normalizeString(args.title),
                        normalizeString(args.artist), searchAnswer.results)

\* mutant of IsrcHit: the entry the lookup returns is not returned
IsrcHitIgnored(args, isrcAnswer) == FALSE

\* step 1 returns from the handler iff the lookup ran and returned an entry
IsrcHit(args, isrcAnswer) ==
    /\ TruthyString(args.isrc)
    /\ isrcAnswer.kind = "returns"
    /\ isrcAnswer.hit # <<>>

\* mutant of resolveTrackToAppleMusic: a lookup that throws ends the call
resolveTrackLookupThrowEnds(args, isrcAnswer, searchAnswer) ==
    LET storefront == IF args.storefront = Undefined THEN "us" ELSE args.storefront
        isrcCall == [fn |-> "searchByISRC", isrc |-> args.isrc,
                     storefront |-> storefront]
        searchCall == [fn |-> "searchCatalog",
                       query |-> args.title \o <<" ">> \o args.artist,
                       storefront |-> storefront, limit |-> SearchLimit]
        isrcCalls == IF TruthyString(args.isrc) THEN <<isrcCall>> ELSE <<>>
    IN  IF IsrcHit(args, isrcAnswer)
        THEN [result |-> MatchedFrom(isrcAnswer.hit[1]), calls |-> isrcCalls]
        ELSE IF TruthyString(args.isrc) /\ isrcAnswer.kind = "throws"
        THEN [result |-> UnmatchedFor("Search failed"), calls |-> isrcCalls]
        ELSE [result |-> TextSearch(args, searchAnswer),
              calls |-> Append(isrcCalls, searchCall)]

\* The handler. isrcAnswer and searchAnswer are what the catalog answers if
\* asked; calls lists the catalog actions the handler ran, in order.
resolveTrackToAppleMusic(args, isrcAnswer, searchAnswer) ==
    LET storefront == IF args.storefront = Undefined THEN "us" ELSE args.storefront
        isrcCall == [fn |-> "searchByISRC", isrc |-> args.isrc,
                     storefront |-> storefront]
        searchCall == [fn |-> "searchCatalog",
                       query |-> args.title \o <<" ">> \o args.artist,
                       storefront |-> storefront, limit |-> SearchLimit]
        isrcCalls == IF TruthyString(args.isrc) THEN <<isrcCall>> ELSE <<>>
    IN  IF IsrcHit(args, isrcAnswer)
        THEN [result |-> MatchedFrom(isrcAnswer.hit[1]), calls |-> isrcCalls]
        ELSE [result |-> TextSearch(args, searchAnswer),
              calls |-> Append(isrcCalls, searchCall)]

(***************************************************************************)
(* Documents                                                               *)
(***************************************************************************)
TitleAbC == <<"A", "b", " ", "c">>

ArtistXy == <<"X", "y">>

\* one element of args.tracks of upsertPlaylistWithTracks, without position
SeedPlain ==
    [title |-> TitleAbC, artistNames |-> <<ArtistXy>>, releaseYear |-> {},
     imageUrl |-> Undefined, spotifyTrackId |-> "sp1", isrc |-> "USX",
     appleMusicId |-> Undefined, previewUrl |-> Undefined]

\* a track that arrives resolved: target id, preview URL and release year
SeedResolved ==
    [title |-> TitleAbC, artistNames |-> <<>>, releaseYear |-> {1999},
     imageUrl |-> "img", spotifyTrackId |-> Undefined, isrc |-> Undefined,
     appleMusicId |-> "am9", previewUrl |-> "prev9"]

\* a track that carries a target id, but no preview URL and no release year
SeedIdOnly ==
    [title |-> TitleAbC, artistNames |-> <<ArtistXy>>, releaseYear |-> {},
     imageUrl |-> Undefined, spotifyTrackId |-> "sp3", isrc |-> Undefined,
     appleMusicId |-> "am9", previewUrl |-> Undefined]

\* Intake passes an optional field with a value (a non-empty string, a year
\* above 0) or leaves it out
TrackSeeds == {SeedPlain, SeedResolved, SeedIdOnly}

WithPosition(seed, position) ==
    [position |-> position, title |-> seed.title,
     artistNames |-> seed.artistNames, releaseYear |-> seed.releaseYear,
     imageUrl |-> seed.imageUrl, spotifyTrackId |-> seed.spotifyTrackId,
     isrc |-> seed.isrc, appleMusicId |-> seed.appleMusicId,
     previewUrl |-> seed.previewUrl]

\* args.tracks as Intake passes it: the source list, positions 0, 1, ...
TrackLists ==
    {[i \in DOMAIN seeds |-> WithPosition(seeds[i], i - 1)] :
        seeds \in SeqsUpTo(TrackSeeds, MaxTracks)}

\* (ownerUserId, sourcePlaylistId) pairs that are imported
PlaylistKeys == {<<"u1", "s1">>, <<"u2", "s1">>}

ArgsOver(keys, lists) ==
    {[ownerUserId |-> k[1], source |-> src, sourcePlaylistId |-> k[2], tracks |-> trs] :
        k \in keys, src \in {"spotify", "appleMusic"}, trs \in lists}

\* args.tracks with the positions counted from the end of the list
ReversedPositions(trs) ==
    [i \in DOMAIN trs |-> [trs[i] EXCEPT !.position = Len(trs) - i]]

\* arguments of upsertPlaylistWithTracks, every kind of track, one playlist;
\* one list is passed with descending positions
UpsertArgs ==
    ArgsOver({<<"u1", "s1">>},
             TrackLists \cup {ReversedPositions(<<WithPosition(SeedPlain, 0),
                                                  WithPosition(SeedResolved, 1)>>)})

\* the imports the batch runs are checked with: two playlists, tracks to
\* resolve and tracks that arrive resolved
ImportArgs ==
    ArgsOver(PlaylistKeys,
             {trs \in TrackLists : \A i \in DOMAIN trs : trs[i].spotifyTrackId # "sp3"})

TracksOf(db, playlistId) == {t \in db : t.playlistId = playlistId}

WithStatus(db, playlistId, status) ==
    {t \in TracksOf(db, playlistId) : t.status = status}

(***************************************************************************)
(* Import Intake: upsertPlaylistWithTracks                                 *)
(***************************************************************************)
\* mutant of ExistingPlaylists: the lookup also compares the source
ExistingPlaylistsSameSource(args) ==
    {p \in DOMAIN playlists :
        /\ playlists[p].ownerUserId = args.ownerUserId
        /\ playlists[p].sourcePlaylistId = args.sourcePlaylistId
        /\ playlists[p].source = args.source}

\* the index lookup by_ownerUserId_and_sourcePlaylistId
ExistingPlaylists(args) ==
    {p \in DOMAIN playlists :
        /\ playlists[p].ownerUserId = args.ownerUserId
        /\ playlists[p].sourcePlaylistId = args.sourcePlaylistId}

\* mutant of IsReady: a target id alone makes a track ready
IsReadyIdOnly(source, track) ==
    \/ source = "appleMusic"
    \/ TruthyString(track.appleMusicId)

\* const isReady = ...
IsReady(source, track) ==
    \/ source = "appleMusic"
    \/ /\ TruthyString(track.appleMusicId)
       /\ TruthyString(track.previewUrl)
       /\ TruthyNumber(track.releaseYear)

\* the document of ctx.db.insert('playlistTracks', ...)
InsertedTrack(playlistId, source, track, id) ==
    [_id |-> id, playlistId |-> playlistId, position |-> track.position,
     status |-> IF IsReady(source, track) THEN "ready" ELSE "pending",
     title |-> track.title, artistNames |-> track.artistNames,
     releaseYear |-> track.releaseYear, imageUrl |-> track.imageUrl,
     spotifyTrackId |-> track.spotifyTrackId, isrc |-> track.isrc,
     appleMusicId |-> track.appleMusicId, previewUrl |-> track.previewUrl,
     unmatchedReason |-> Undefined]

\* mutant of DeleteExistingTracks: only the pending tracks are deleted
DeletePendingTracksOnly(db, playlistId) == db \ WithStatus(db, playlistId, "pending")

\* the loop that deletes existingTracks: what is left of the table
DeleteExistingTracks(db, playlistId) == db \ TracksOf(db, playlistId)

\* readyTracks once the handler returns: 0, patched for an Apple Music import
SeededReadyTracks(args) ==
    IF args.source = "appleMusic" THEN Len(args.tracks) ELSE 0

\* the fields the patch of an existing playlist and the insert of a new one set
UpsertedPlaylist(args, source) ==
    [ownerUserId |-> args.ownerUserId, source |-> source,
     sourcePlaylistId |-> args.sourcePlaylistId,
     status |-> IF args.source = "appleMusic" THEN "ready" ELSE "processing",
     totalTracks |-> Len(args.tracks),
     readyTracks |-> SeededReadyTracks(args),
     unmatchedTracks |-> 0]

\* The mutation. .unique() throws when the index holds two documents for the
\* pair; the mutation then commits nothing.
upsertPlaylistWithTracks(args) ==
    LET existing == ExistingPlaylists(args)
        playlistId == IF existing # {} THEN CHOOSE p \in existing : TRUE
                      ELSE Len(playlists) + 1
        kept == IF existing # {} THEN DeleteExistingTracks(tracks, playlistId)
                ELSE tracks
        inserted == {InsertedTrack(playlistId, args.source, args.tracks[i],
                                   nextTrackId + i - 1) : i \in DOMAIN args.tracks}
    IN  /\ Cardinality(existing) <= 1
        /\ playlists' =
              IF existing # {}
              THEN [playlists EXCEPT
                      ![playlistId] = UpsertedPlaylist(args, playlists[playlistId].source)]
              ELSE Append(playlists, UpsertedPlaylist(args, args.source))
        /\ tracks' = kept \cup inserted
        /\ nextTrackId' = nextTrackId + Len(args.tracks)
        /\ lastCall' = [op |-> "upsert", playlistId |-> playlistId,
                        existed |-> existing # {}, args |-> args,
                        before |-> {[_id |-> t._id, status |-> t.status] :
                                        t \in TracksOf(tracks, playlistId)}]

(***************************************************************************)
(* Queries and mutations of the pipeline                                   *)
(***************************************************************************)
\* documents of S by ascending _id: the order of an index scan, which ends in
\* _creationTime and _id
RECURSIVE ByCreation(_)
ByCreation(S) ==
    IF S = {} THEN <<>>
    ELSE LET first == CHOOSE t \in S : \A u \in S : t._id <= u._id
         IN  <<first>> \o ByCreation(S \ {first})

\* mutant of Take: the limit is not applied
TakeAll(s, limit) == s

\* .take(limit)
Take(s, limit) == SubSeq(s, 1, Min(Len(s), limit))

\* index by_playlistId_and_status, eq playlistId, eq 'pending', take(limit)
getPendingTracks(db, playlistId, limit) ==
    LET found == Take(ByCreation(WithStatus(db, playlistId, "pending")), limit)
    IN  [i \in DOMAIN found |->
            [_id |-> found[i]._id, title |-> found[i].title,
             artistNames |-> found[i].artistNames, isrc |-> found[i].isrc]]

\* mutant of TrackExists: a patch of a deleted document is not refused
TrackExistsAlways(db, trackId) == TRUE

\* ctx.db.patch on a track throws when the document no longer exists
TrackExists(db, trackId) == \E t \in db : t._id = trackId

\* mutant of ReadyPatch: the patch also moves the track to the front
ReadyPatchMovesTrack(t, result) ==
    [t EXCEPT !.status = "ready",
              !.position = 0,
              !.appleMusicId = result.appleMusicId,
              !.title = result.title,
              !.artistNames = <<result.artistName>>,
              !.releaseYear = {result.releaseYear},
              !.previewUrl = result.previewUrl,
              !.imageUrl = result.artworkUrl,
              !.isrc = result.isrc]

\* markTrackReady: the patched document
ReadyPatch(t, result) ==
    [t EXCEPT !.status = "ready",
              !.appleMusicId = result.appleMusicId,
              !.title = result.title,
              !.artistNames = <<result.artistName>>,
              !.releaseYear = {result.releaseYear},
              !.previewUrl = result.previewUrl,
              !.imageUrl = result.artworkUrl,
              !.isrc = result.isrc]

markTrackReady(db, trackId, result) ==
    {IF t._id = trackId THEN ReadyPatch(t, result) ELSE t : t \in db}

\* markTrackUnmatched: the patched document
UnmatchedPatch(t, reason) ==
    [t EXCEPT !.status = "unmatched", !.unmatchedReason = reason]

\* mutant of markTrackUnmatched: the track is found by its source id, in
\* every playlist
markTrackUnmatchedBySourceId(db, trackId, reason) ==
    LET found == CHOOSE t \in db : t._id = trackId
    IN  {IF t.spotifyTrackId = found.spotifyTrackId THEN UnmatchedPatch(t, reason)
         ELSE t : t \in db}

markTrackUnmatched(db, trackId, reason) ==
    {IF t._id = trackId THEN UnmatchedPatch(t, reason) ELSE t : t \in db}

\* mutant of CountTracks: the scan is not restricted to the playlist
CountAllPlaylists(db, playlistId) ==
    [pendingCount |-> Cardinality({t \in db : t.status = "pending"}),
     readyCount |-> Cardinality({t \in db : t.status = "ready"}),
     unmatchedCount |-> Cardinality({t \in db : t.status = "unmatched"})]

\* updatePlaylistCounts: the counts over the index by_playlistId
CountTracks(db, playlistId) ==
    [pendingCount |-> Cardinality(WithStatus(db, playlistId, "pending")),
     readyCount |-> Cardinality(WithStatus(db, playlistId, "ready")),
     unmatchedCount |-> Cardinality(WithStatus(db, playlistId, "unmatched"))]

\* mutant of NewStatus: the count never makes the playlist ready
NewStatusProcessing(pendingCount) == "processing"

\* mutant of NewStatus: the playlist is ready after every count
NewStatusAlwaysReady(pendingCount) == "ready"

\* const newStatus = pendingCount === 0 ? 'ready' : 'processing'
NewStatus(pendingCount) == IF pendingCount = 0 THEN "ready" ELSE "processing"

\* updatePlaylistCounts: the patched playlist document
CountsPatch(playlist, counts) ==
    [playlist EXCEPT !.status = NewStatus(counts.pendingCount),
                     !.readyTracks = counts.readyCount,
                     !.unmatchedTracks = counts.unmatchedCount]

\* the mutation, one transaction
updatePlaylistCounts(playlistId) ==
    /\ playlists' = [playlists EXCEPT
                       ![playlistId] = CountsPatch(@, CountTracks(tracks, playlistId))]
    /\ UNCHANGED <<tracks, nextTrackId>>

(***************************************************************************)
(* Batch Coordinator: processPlaylistBatch                                 *)
(*                                                                         *)
(* A run is at one of the awaits of the handler:                           *)
(*   "none"        the slot holds no run yet                               *)
(*   "scheduled"   handed to the scheduler, not started                    *)
(*   "resolve"     before runAction(resolveTrackToAppleMusic) for track i  *)
(*   "mark"        before runMutation(markTrackReady/markTrackUnmatched)   *)
(*   "delay"       in the rate-limit delay after track i                   *)
(*   "counts"      before runMutation(updatePlaylistCounts) after the loop *)
(*   "finalCounts" before runMutation(updatePlaylistCounts), empty batch   *)
(*   "schedule"    before scheduler.runAfter for the successor             *)
(*   "done"        returned null                                           *)
(*   "failed"      ended by an exception                                   *)
(***************************************************************************)
RunIds == 1..MaxImports

\* lastCall when the last step was not an upsert
NoCall == [op |-> "other"]

NoResult == [matched |-> FALSE, reason |-> Undefined]

\* a run between two tracks: its arguments, with storefront the constant
\* args.storefront ?? 'us' of the handler, and no batch
IdleRun(pc, playlistId, storefront) ==
    [pc |-> pc, playlistId |-> playlistId, storefront |-> storefront,
     pendingTracks |-> <<>>, i |-> 0, result |-> NoResult]

NoRun == IdleRun("none", 0, "us")

\* catalog answers a batch run can meet
BatchCatalog == {EntryBoth}

BatchIsrcAnswers ==
    {Throws} \cup {[kind |-> "returns", hit |-> h] : h \in SeqsUpTo(BatchCatalog, 1)}

BatchSearchAnswers ==
    {Throws} \cup {[kind |-> "returns", results |-> c] : c \in SeqsUpTo(BatchCatalog, 1)}

\* const pendingTracks = await ctx.runQuery(getPendingTracks, ...)
RunStart(r) ==
    /\ runs[r].pc = "scheduled"
    /\ LET pendingTracks == getPendingTracks(tracks, runs[r].playlistId, BATCH_SIZE)
       IN  runs' = [runs EXCEPT ![r] =
              [@ EXCEPT !.pc = IF Len(pendingTracks) = 0 THEN "finalCounts" ELSE "resolve",
                        !.pendingTracks = pendingTracks,
                        !.i = IF Len(pendingTracks) = 0 THEN 0 ELSE 1]]
    /\ lastCall' = NoCall
    /\ UNCHANGED <<playlists, tracks, nextTrackId, imports>>

\* the arguments the loop passes to resolveTrackToAppleMusic
ResolveArgs(track, storefront) ==
    [trackId |-> track._id, isrc |-> track.isrc, title |-> track.title,
     artist |-> IF Len(track.artistNames) > 0 THEN track.artistNames[1]
                ELSE <<"U", "n", "k", "n", "o", "w", "n", " ",
                       "A", "r", "t", "i", "s", "t">>,
     storefront |-> storefront]

\* mutant of RunResolveWith: a catalog call that throws ends the run
RunResolveThrowAborts(r, isrcAnswers, searchAnswers) ==
    /\ runs[r].pc = "resolve"
    /\ \E isrcAnswer \in isrcAnswers, searchAnswer \in searchAnswers :
          runs' = [runs EXCEPT ![r] =
              IF isrcAnswer.kind = "throws" \/ searchAnswer.kind = "throws"
              THEN IdleRun("failed", @.playlistId, @.storefront)
              ELSE [@ EXCEPT !.pc = "mark",
                             !.result = resolveTrackToAppleMusic(
                                            ResolveArgs(runs[r].pendingTracks[runs[r].i],
                                                        runs[r].storefront),
                                            isrcAnswer, searchAnswer).result]]
    /\ lastCall' = NoCall
    /\ UNCHANGED <<playlists, tracks, nextTrackId, imports>>

\* const result = await ctx.runAction(resolveTrackToAppleMusic, ...), with
\* the catalog answering from the given sets
RunResolveWith(r, isrcAnswers, searchAnswers) ==
    /\ runs[r].pc = "resolve"
    /\ \E isrcAnswer \in isrcAnswers, searchAnswer \in searchAnswers :
          runs' = [runs EXCEPT ![r] =
              [@ EXCEPT !.pc = "mark",
                        !.result = resolveTrackToAppleMusic(
                                       ResolveArgs(runs[r].pendingTracks[runs[r].i],
                                                        runs[r].storefront),
                                       isrcAnswer, searchAnswer).result]]
    /\ lastCall' = NoCall
    /\ UNCHANGED <<playlists, tracks, nextTrackId, imports>>

RunResolve(r) == RunResolveWith(r, BatchIsrcAnswers, BatchSearchAnswers)

\* mutant of RunMark: after markTrackReady the loop goes on without the delay
RunMarkSkipsDelay(r) ==
    /\ runs[r].pc = "mark"
    /\ LET trackId == runs[r].pendingTracks[runs[r].i]._id
           result == runs[r].result
       IN  /\ tracks' = IF result.matched
                        THEN markTrackReady(tracks, trackId, result)
                        ELSE markTrackUnmatched(tracks, trackId, result.reason)
           /\ runs' = [runs EXCEPT ![r] =
                 IF ~result.matched
                 THEN [@ EXCEPT !.pc = "delay", !.result = NoResult]
                 ELSE IF @.i < Len(@.pendingTracks)
                      THEN [@ EXCEPT !.pc = "resolve", !.i = @ + 1, !.result = NoResult]
                      ELSE [@ EXCEPT !.pc = "counts", !.result = NoResult]]
           /\ lastCall' = NoCall
    /\ UNCHANGED <<playlists, nextTrackId, imports>>

\* await ctx.runMutation(markTrackReady | markTrackUnmatched, ...)
RunMark(r) ==
    /\ runs[r].pc = "mark"
    /\ LET trackId == runs[r].pendingTracks[runs[r].i]._id
           result == runs[r].result
       IN  IF TrackExists(tracks, trackId)
           THEN /\ tracks' = IF result.matched
                             THEN markTrackReady(tracks, trackId, result)
                             ELSE markTrackUnmatched(tracks, trackId, result.reason)
                /\ runs' = [runs EXCEPT ![r] = [@ EXCEPT !.pc = "delay", !.result = NoResult]]
                /\ lastCall' = NoCall
           ELSE /\ tracks' = tracks
                /\ runs' = [runs EXCEPT ![r] = IdleRun("failed", @.playlistId, @.storefront)]
                /\ lastCall' = NoCall
    /\ UNCHANGED <<playlists, nextTrackId, imports>>

\* await new Promise((resolve) => setTimeout(resolve, RATE_LIMIT_DELAY_MS))
RunDelay(r) ==
    /\ runs[r].pc = "delay"
    /\ runs' = [runs EXCEPT ![r] =
          IF @.i < Len(@.pendingTracks)
          THEN [@ EXCEPT !.pc = "resolve", !.i = @ + 1]
          ELSE [@ EXCEPT !.pc = "counts"]]
    /\ lastCall' = NoCall
    /\ UNCHANGED <<playlists, tracks, nextTrackId, imports>>

\* mutant of RunCounts: a successor is scheduled after every batch
RunCountsAlwaysSchedules(r) ==
    /\ runs[r].pc = "counts"
    /\ updatePlaylistCounts(runs[r].playlistId)
    /\ runs' = [runs EXCEPT ![r] = IdleRun("schedule", @.playlistId, @.storefront)]
    /\ lastCall' = NoCall
    /\ UNCHANGED imports

\* const counts = await ctx.runMutation(updatePlaylistCounts, ...), after the
\* loop; with no pending track left the handler returns
RunCounts(r) ==
    /\ runs[r].pc = "counts"
    /\ updatePlaylistCounts(runs[r].playlistId)
    /\ runs' = [runs EXCEPT ![r] =
          IdleRun(IF CountTracks(tracks, @.playlistId).pendingCount > 0
                  THEN "schedule" ELSE "done", @.playlistId, @.storefront)]
    /\ lastCall' = NoCall
    /\ UNCHANGED imports

\* the empty batch: updatePlaylistCounts, then return null
RunFinalCounts(r) ==
    /\ runs[r].pc = "finalCounts"
    /\ updatePlaylistCounts(runs[r].playlistId)
    /\ runs' = [runs EXCEPT ![r] = IdleRun("done", @.playlistId, @.storefront)]
    /\ lastCall' = NoCall
    /\ UNCHANGED imports

\* await ctx.scheduler.runAfter(0, processPlaylistBatch, ...); return null:
\* the successor takes the slot of the run that ends
RunSchedule(r) ==
    /\ runs[r].pc = "schedule"
    /\ runs' = [runs EXCEPT ![r] = IdleRun("scheduled", @.playlistId, @.storefront)]
    /\ lastCall' = NoCall
    /\ UNCHANGED <<playlists, tracks, nextTrackId, imports>>

(***************************************************************************)
(* Import Intake: the upsert, then the trigger of the first run            *)
(***************************************************************************)
\* processPlaylistBatch is called with the playlist and with a storefront
\* or without one: const storefront = args.storefront ?? 'us'
TriggerFirstRun(playlistId, storefront) ==
    runs' = [runs EXCEPT ![imports + 1] =
                IdleRun("scheduled", playlistId,
                        IF storefront = Undefined THEN "us" ELSE storefront)]

ImportPlaylist(args, storefront) ==
    /\ imports < MaxImports
    /\ upsertPlaylistWithTracks(args)
    /\ TriggerFirstRun(lastCall'.playlistId, storefront)
    /\ imports' = imports + 1

(***************************************************************************)
(* Play-game store (src/hooks/use-sync-game-to-store.ts)                   *)
(*                                                                         *)
(* store is the state of the zustand store that the drag-and-drop and the  *)
(* action state read: game and timelines as the queries delivered them,    *)
(* dnd and action. A game is Null or a record of its players, the seat     *)
(* whose turn it is and currentRound.placementIndex, an optional number    *)
(* ({} when the round or the index is missing). wrapped[w] is "none",      *)
(* "pending" between the call of wrapAction and the settling of the        *)
(* promise it awaits, then "fulfilled" or "rejected".                      *)
(***************************************************************************)
WrapIds == 1..MaxWrapped

\* the state create() is given; dnd.activeId is Null or [id |-> the id] and
\* action.error is Null or [message |-> the string]
InitialStore ==
    [game |-> Null, timelines |-> <<>>,
     dnd |-> [items |-> <<>>, activeId |-> Null, wasExternalDrag |-> FALSE],
     action |-> [loading |-> FALSE, error |-> Null]]

\* the games the query delivers: two players, the turn at a seat with or
\* without a player, the card of the round placed or not
Games ==
    {[players |-> <<[_id |-> "p1", seatIndex |-> 0], [_id |-> "p2", seatIndex |-> 1]>>,
      currentTurnSeatIndex |-> seat, placementIndex |-> idx] :
        seat \in 0..2, idx \in {{}, {0}, {1}, {5}}}

\* a copy of items after items.splice(start, 0, x): a negative start counts
\* from the end, a start beyond the end appends
Splice(items, start, x) ==
    LET at == IF start < 0 THEN Max(Len(items) + start, 0) ELSE Min(start, Len(items))
    IN  SubSeq(items, 1, at) \o <<x>> \o SubSeq(items, at + 1, Len(items))

computeInitialDndItems(game, timelines) ==
    IF game = Null THEN <<>>
    ELSE LET seats == {i \in DOMAIN game.players :
                          game.players[i].seatIndex = game.currentTurnSeatIndex}
             activePlayerId ==
                 IF seats = {} THEN Undefined
                 ELSE game.players[CHOOSE i \in seats : \A j \in seats : i <= j]._id
             found == {i \in DOMAIN timelines : timelines[i].playerId = activePlayerId}
             cardIds ==
                 IF found = {} THEN <<>>
                 ELSE timelines[CHOOSE i \in found : \A j \in found : i <= j].cards
         IN  IF game.placementIndex # {}
             THEN LET placementIdx == CHOOSE n \in game.placementIndex : TRUE
                  IN  Splice(cardIds, Min(placementIdx, Len(cardIds)), MYSTERY_CARD_ID)
             ELSE cardIds

\* setGame, without the derived state
setGame(game) ==
    /\ store' = [store EXCEPT !.game = game]
    /\ lastCall' = [op |-> "setGame"]
    /\ UNCHANGED wrapped

\* setTimelines, without the derived state
setTimelines(timelines) ==
    /\ store' = [store EXCEPT !.timelines = timelines]
    /\ lastCall' = [op |-> "setTimelines"]
    /\ UNCHANGED wrapped

setDndItems(items) ==
    /\ store' = [store EXCEPT !.dnd.items = items]
    /\ lastCall' = [op |-> "setDndItems"]
    /\ UNCHANGED wrapped

setDndActiveId(activeId) ==
    /\ store' = [store EXCEPT !.dnd.activeId = activeId]
    /\ lastCall' = [op |-> "setDndActiveId"]
    /\ UNCHANGED wrapped

setWasExternalDrag(wasExternalDrag) ==
    /\ store' = [store EXCEPT !.dnd.wasExternalDrag = wasExternalDrag]
    /\ lastCall' = [op |-> "setWasExternalDrag"]
    /\ UNCHANGED wrapped

resetDndState ==
    /\ store' = [store EXCEPT !.dnd =
          [items |-> computeInitialDndItems(store.game, store.timelines),
           activeId |-> Null, wasExternalDrag |-> FALSE]]
    /\ lastCall' = [op |-> "resetDndState"]
    /\ UNCHANGED wrapped

\* mutant of insertMysteryCard: without the test of dnd.items
insertMysteryCardAgain(index) ==
    /\ store' = [store EXCEPT
                   !.dnd.items = Splice(store.dnd.items, index, MYSTERY_CARD_ID),
                   !.dnd.wasExternalDrag = TRUE]
    /\ lastCall' = [op |-> "insertMysteryCard", index |-> index]
    /\ UNCHANGED wrapped

insertMysteryCard(index) ==
    /\ store' = IF MYSTERY_CARD_ID \in Range(store.dnd.items) THEN store
                ELSE [store EXCEPT
                        !.dnd.items = Splice(store.dnd.items, index, MYSTERY_CARD_ID),
                        !.dnd.wasExternalDrag = TRUE]
    /\ lastCall' = [op |-> "insertMysteryCard", index |-> index]
    /\ UNCHANGED wrapped

removeMysteryCard ==
    /\ store' = [store EXCEPT !.dnd.items =
                    SelectSeq(store.dnd.items, LAMBDA id : id # MYSTERY_CARD_ID)]
    /\ lastCall' = [op |-> "removeMysteryCard"]
    /\ UNCHANGED wrapped

setActionLoading(loading) ==
    /\ store' = [store EXCEPT !.action.loading = loading]
    /\ lastCall' = [op |-> "setActionLoading"]
    /\ UNCHANGED wrapped

setActionError(error) ==
    /\ store' = [store EXCEPT !.action.error = error]
    /\ lastCall' = [op |-> "setActionError"]
    /\ UNCHANGED wrapped

clearActionError ==
    /\ store' = [store EXCEPT !.action.error = Null]
    /\ lastCall' = [op |-> "clearActionError"]
    /\ UNCHANGED wrapped

\* wrapAction up to its await: setActionError(null), setActionLoading(true),
\* then the action is called. An action that returns is awaited; an action
\* that throws instead of returning is caught at once, inside the try: the
\* catch block, with the message of an Error or 'Action failed', then the
\* finally block, and the call of wrapAction was never pending
wrapAction(w, called) ==
    /\ wrapped[w] = "none"
    /\ wrapped' = [wrapped EXCEPT ![w] = IF called = "returns" THEN "pending"
                                        ELSE "rejected"]
    /\ store' = [store EXCEPT !.action =
          IF called = "returns"
          THEN [loading |-> TRUE, error |-> Null]
          ELSE [loading |-> FALSE,
                error |-> IF called = "throwsError" THEN [message |-> "boom"]
                          ELSE [message |-> "Action failed"]]]
    /\ lastCall' = [op |-> "wrapAction", w |-> w]

\* the promise of the action settles: the catch block for a rejection, with
\* the message of an Error or 'Action failed', then the finally block
wrapActionSettles(w, outcome) ==
    /\ wrapped[w] = "pending"
    /\ wrapped' = [wrapped EXCEPT ![w] = IF outcome = "fulfilled" THEN "fulfilled"
                                        ELSE "rejected"]
    /\ store' = [store EXCEPT !.action =
          [loading |-> FALSE,
           error |-> IF outcome = "fulfilled" THEN store.action.error
                     ELSE IF outcome = "rejectedWithError"
                          THEN [message |-> "boom"]
                          ELSE [message |-> "Action failed"]]]
    /\ lastCall' = [op |-> "settled", w |-> w]

(***************************************************************************)
(* Specification of the pipeline                                           *)
(***************************************************************************)
Init ==
    /\ playlists = <<>>
    /\ tracks = {}
    /\ nextTrackId = 1
    /\ runs = [r \in RunIds |-> NoRun]
    /\ imports = 0
    /\ lastCall = NoCall
    /\ rIn = <<>>
    /\ rOut = <<>>
    /\ trace = <<>>
    /\ store = InitialStore
    /\ wrapped = [w \in WrapIds |-> "none"]

Next ==
    \/ \E args \in ImportArgs : ImportPlaylist(args, Undefined) /\ UNCHANGED observerVars
    \/ \E r \in RunIds : RunStart(r) /\ UNCHANGED observerVars
    \/ \E r \in RunIds : RunResolve(r) /\ UNCHANGED observerVars
    \/ \E r \in RunIds : RunMark(r) /\ UNCHANGED observerVars
    \/ \E r \in RunIds : RunDelay(r) /\ UNCHANGED observerVars
    \/ \E r \in RunIds : RunCounts(r) /\ UNCHANGED observerVars
    \/ \E r \in RunIds : RunFinalCounts(r) /\ UNCHANGED observerVars
    \/ \E r \in RunIds : RunSchedule(r) /\ UNCHANGED observerVars

Spec == Init /\ [][Next]_vars

(***************************************************************************)
(* Specification of the tables: the four mutations as transactions, called *)
(* in any order. Every step of a batch run that writes is one of them, so  *)
(* what holds of the tables here holds under every interleaving of runs.   *)
(***************************************************************************)
\* what resolveTrackToAppleMusic hands to the two mark mutations
BatchResults ==
    {resolveTrackToAppleMusic(ResolveArgs(WithPosition(SeedPlain, 0) @@ [_id |-> 0], "us"),
                              isrcAnswer, searchAnswer).result :
        isrcAnswer \in BatchIsrcAnswers, searchAnswer \in BatchSearchAnswers}

Upsert(args) ==
    /\ imports < MaxImports
    /\ upsertPlaylistWithTracks(args)
    /\ imports' = imports + 1
    /\ UNCHANGED runs

MarkTrackReady(trackId, result) ==
    /\ TrackExists(tracks, trackId)
    /\ tracks' = markTrackReady(tracks, trackId, result)
    /\ lastCall' = NoCall
    /\ UNCHANGED <<playlists, nextTrackId, runs, imports>>

MarkTrackUnmatched(trackId, reason) ==
    /\ TrackExists(tracks, trackId)
    /\ tracks' = markTrackUnmatched(tracks, trackId, reason)
    /\ lastCall' = NoCall
    /\ UNCHANGED <<playlists, nextTrackId, runs, imports>>

UpdatePlaylistCounts(playlistId) ==
    /\ updatePlaylistCounts(playlistId)
    /\ lastCall' = NoCall
    /\ UNCHANGED <<runs, imports>>

\* Intake marks the playlist failed after an upstream fetch error
IntakeMarksFailed(playlistId) ==
    /\ playlists[playlistId].status # "failed"
    /\ playlists' = [playlists EXCEPT ![playlistId].status = "failed"]
    /\ lastCall' = [op |-> "markFailed", playlistId |-> playlistId]
    /\ UNCHANGED <<tracks, nextTrackId, runs, imports>>

NextTables ==
    \/ \E args \in UpsertArgs : Upsert(args) /\ UNCHANGED observerVars
    \/ \E p \in DOMAIN playlists : IntakeMarksFailed(p) /\ UNCHANGED observerVars
    \/ \E t \in tracks, result \in {x \in BatchResults : x.matched} :
          MarkTrackReady(t._id, result) /\ UNCHANGED observerVars
    \/ \E t \in tracks, result \in {x \in BatchResults : ~x.matched} :
          MarkTrackUnmatched(t._id, result.reason) /\ UNCHANGED observerVars
    \/ \E p \in DOMAIN playlists : UpdatePlaylistCounts(p) /\ UNCHANGED observerVars

SpecTables == Init /\ [][NextTables]_vars

(***************************************************************************)
(* Specification of the Resolver: one call of resolveTrackToAppleMusic on  *)
(* every input and every pair of catalog answers                           *)
(***************************************************************************)
TitleQr == <<"Q", " ", "r">>

ResolverArgs ==
    {[trackId |-> 1, isrc |-> isrc, title |-> title, artist |-> ArtistXy,
      storefront |-> storefront] :
        isrc \in {Undefined, "USX"}, title \in {TitleAbC, TitleQr},
        storefront \in {Undefined, "de"}}

InitResolver ==
    /\ playlists = <<>>
    /\ tracks = {}
    /\ nextTrackId = 1
    /\ runs = [r \in RunIds |-> NoRun]
    /\ imports = 0
    /\ lastCall = NoCall
    /\ rIn \in {<<[args |-> a, isrcAnswer |-> ia, searchAnswer |-> sa]>> :
                   a \in ResolverArgs, ia \in IsrcAnswers, sa \in SearchAnswers}
    /\ rOut = <<>>
    /\ trace = <<>>
    /\ store = InitialStore
    /\ wrapped = [w \in WrapIds |-> "none"]

Resolve ==
    /\ rIn # <<>>
    /\ rOut = <<>>
    /\ rOut' = <<resolveTrackToAppleMusic(rIn[1].args, rIn[1].isrcAnswer,
                                          rIn[1].searchAnswer)>>
    /\ UNCHANGED <<rIn, pipelineVars, trace, storeVars>>

NextResolver == Resolve

SpecResolver == InitResolver /\ [][NextResolver]_vars

(***************************************************************************)
(* Specification of the batches: one import of n tracks to resolve, one    *)
(* trigger, no second run. rIn holds what the catalog answers in this     *)
(* behaviour: rIn[1] for the first track of every batch, rIn[2] for the     *)
(* tracks after it, so a batch can fail on one track and succeed on the     *)
(* others. trace lists what the runs did.                                   *)
(***************************************************************************)
PendingList(n) == [i \in 1..n |-> WithPosition(SeedPlain, i - 1)]

\* lists of every length up to MaxBatchTracks in source order, and two lists
\* whose positions descend: one shorter and one longer than a batch
BatchImportArgs ==
    {[ownerUserId |-> "u1", source |-> "spotify", sourcePlaylistId |-> "s1",
      tracks |-> trs] :
        trs \in {PendingList(n) : n \in 0..MaxBatchTracks}
                   \cup {ReversedPositions(PendingList(n)) : n \in {2, BATCH_SIZE + 2}}}

\* what the catalog answers to the calls made for one track
BatchAnswers ==
    {[isrcAnswer |-> isrcAnswer, searchAnswer |-> searchAnswer] :
        isrcAnswer \in BatchIsrcAnswers, searchAnswer \in BatchSearchAnswers}

\* the answers for the track run r is about to resolve
AnswersFor(r) == IF runs[r].i = 1 THEN rIn[1] ELSE rIn[2]

Started(r) == [op |-> "start", size |-> Len(runs'[r].pendingTracks)]

Resolved(r) == [op |-> "resolve", trackId |-> runs[r].pendingTracks[runs[r].i]._id]

Marked(r) == [op |-> "mark", trackId |-> runs[r].pendingTracks[runs[r].i]._id]

Delayed(r) == [op |-> "delay", trackId |-> runs[r].pendingTracks[runs[r].i]._id]

\* the call of updatePlaylistCounts and the pendingCount it returns
Counted(r) ==
    [op |-> "counts",
     pendingCount |-> CountTracks(tracks, runs[r].playlistId).pendingCount]

\* the successor is scheduled for the playlist of the run
Scheduled(r) == [op |-> "schedule", playlistId |-> runs[r].playlistId]

NextBatches ==
    \/ \E args \in BatchImportArgs, storefront \in {Undefined, "de"},
          first \in BatchAnswers, rest \in BatchAnswers :
          /\ imports = 0
          /\ ImportPlaylist(args, storefront)
          /\ rIn' = <<first, rest>>
          /\ UNCHANGED <<rOut, trace, storeVars>>
    \/ \E r \in RunIds :
          RunStart(r) /\ trace' = Append(trace, Started(r)) /\ UNCHANGED <<resolverVars, storeVars>>
    \/ \E r \in RunIds :
          /\ RunResolveWith(r, {AnswersFor(r).isrcAnswer}, {AnswersFor(r).searchAnswer})
          /\ trace' = Append(trace, Resolved(r))
          /\ UNCHANGED <<resolverVars, storeVars>>
    \/ \E r \in RunIds :
          RunMark(r) /\ trace' = Append(trace, Marked(r)) /\ UNCHANGED <<resolverVars, storeVars>>
    \/ \E r \in RunIds :
          RunDelay(r) /\ trace' = Append(trace, Delayed(r)) /\ UNCHANGED <<resolverVars, storeVars>>
    \/ \E r \in RunIds :
          RunCounts(r) /\ trace' = Append(trace, Counted(r)) /\ UNCHANGED <<resolverVars, storeVars>>
    \/ \E r \in RunIds :
          RunFinalCounts(r) /\ trace' = Append(trace, Counted(r)) /\ UNCHANGED <<resolverVars, storeVars>>
    \/ \E r \in RunIds :
          RunSchedule(r) /\ trace' = Append(trace, Scheduled(r)) /\ UNCHANGED <<resolverVars, storeVars>>

SpecBatches == Init /\ [][NextBatches]_vars

(***************************************************************************)
(* Specification of the pipeline under fair scheduling. A scheduled run    *)
(* starts and every step of a run in flight is eventually taken: the       *)
(* scheduler runs what it was handed, and every catalog call returns or    *)
(* throws. A run in flight may crash; a run that ended by an exception is  *)
(* triggered again from outside. trace counts the crashes.                 *)
(***************************************************************************)
InFlight(r) ==
    runs[r].pc \in {"resolve", "mark", "delay", "counts", "finalCounts", "schedule"}

\* the action ends by an exception at its current await
Crash(r) ==
    /\ Len(trace) < MaxCrashes
    /\ InFlight(r)
    /\ runs' = [runs EXCEPT ![r] = IdleRun("failed", @.playlistId, @.storefront)]
    /\ trace' = Append(trace, [op |-> "crash", run |-> r])
    /\ lastCall' = NoCall
    /\ UNCHANGED <<playlists, tracks, nextTrackId, imports, rIn, rOut, storeVars>>

\* processPlaylistBatch is called again for the playlist of a run that ended
\* by an exception
Retrigger(r) ==
    /\ runs[r].pc = "failed"
    /\ runs' = [runs EXCEPT ![r] = IdleRun("scheduled", @.playlistId, @.storefront)]
    /\ lastCall' = NoCall
    /\ UNCHANGED <<playlists, tracks, nextTrackId, imports, observerVars>>

\* the next step of run r
RunStep(r) ==
    /\ \/ RunStart(r)
       \/ RunResolve(r)
       \/ RunMark(r)
       \/ RunDelay(r)
       \/ RunCounts(r)
       \/ RunFinalCounts(r)
       \/ RunSchedule(r)
    /\ UNCHANGED observerVars

NextLive ==
    \/ \E args \in {a \in ImportArgs : a.ownerUserId = "u1"} :
          ImportPlaylist(args, "de") /\ UNCHANGED observerVars
    \/ \E r \in RunIds : RunStep(r)
    \/ \E r \in RunIds : Crash(r)
    \/ \E r \in RunIds : Retrigger(r)

SpecLive ==
    /\ Init
    /\ [][NextLive]_vars
    /\ \A r \in RunIds : WF_vars(RunStep(r)) /\ WF_vars(Retrigger(r))

(***************************************************************************)
(* Read boundary: playlists.listMine and playlists.get                     *)
(*                                                                         *)
(* identity is the subject of ctx.auth.getUserIdentity(), Undefined when    *)
(* the caller is not authenticated. includeAllTracks is <<>> when absent,   *)
(* else <<TRUE>> or <<FALSE>>. A playlist's _id is its index in playlists.  *)
(***************************************************************************)
Callers == {Undefined, "u1", "u2"}

\* documents of S in the order of the index by_playlistId_and_position:
\* by position, then by creation
RECURSIVE ByPositionIndex(_)
ByPositionIndex(S) ==
    IF S = {} THEN <<>>
    ELSE LET first == CHOOSE t \in S : \A u \in S :
                          \/ t.position < u.position
                          \/ t.position = u.position /\ t._id <= u._id
         IN  <<first>> \o ByPositionIndex(S \ {first})

\* one step of a stable sort: t is put behind the elements that do not
\* compare greater
RECURSIVE InsertByPosition(_, _)
InsertByPosition(sorted, t) ==
    IF sorted = <<>> THEN <<t>>
    ELSE IF Head(sorted).position - t.position > 0
         THEN <<t>> \o sorted
         ELSE <<Head(sorted)>> \o InsertByPosition(Tail(sorted), t)

\* allTracks.sort((a, b) => a.position - b.position)
RECURSIVE SortByPosition(_)
SortByPosition(s) ==
    IF s = <<>> THEN <<>>
    ELSE InsertByPosition(SortByPosition(SubSeq(s, 1, Len(s) - 1)), s[Len(s)])

RECURSIVE FilterReady(_)
FilterReady(s) ==
    IF s = <<>> THEN <<>>
    ELSE IF Head(s).status = "ready"
         THEN <<Head(s)>> \o FilterReady(Tail(s))
         ELSE FilterReady(Tail(s))

RECURSIVE FilterNotPending(_)
FilterNotPending(s) ==
    IF s = <<>> THEN <<>>
    ELSE IF Head(s).status # "pending"
         THEN <<Head(s)>> \o FilterNotPending(Tail(s))
         ELSE FilterNotPending(Tail(s))

\* mutant of VisibleTracks: only the pending tracks are hidden
VisibleTracksNotPending(allTracks, includeAllTracks) ==
    IF includeAllTracks = <<TRUE>> THEN allTracks ELSE FilterNotPending(allTracks)

\* args.includeAllTracks ? allTracks : allTracks.filter(status === 'ready')
VisibleTracks(allTracks, includeAllTracks) ==
    IF includeAllTracks = <<TRUE>> THEN allTracks ELSE FilterReady(allTracks)

\* the fields of a track that get returns
ReturnedTrack(t) ==
    [_id |-> t._id, position |-> t.position, status |-> t.status,
     title |-> t.title, artistNames |-> t.artistNames,
     releaseYear |-> t.releaseYear, previewUrl |-> t.previewUrl,
     imageUrl |-> t.imageUrl, spotifyTrackId |-> t.spotifyTrackId,
     unmatchedReason |-> t.unmatchedReason]

\* mutant of Readable: the owner is not compared with the caller
ReadableByAnyone(identity, playlistId) == playlistId \in DOMAIN playlists

\* !(!playlist || playlist.ownerUserId !== identity.subject)
Readable(identity, playlistId) ==
    /\ playlistId \in DOMAIN playlists
    /\ playlists[playlistId].ownerUserId = identity

\* playlists.get
get(identity, args) ==
    IF identity = Undefined THEN Null
    ELSE IF ~Readable(identity, args.playlistId) THEN Null
    ELSE LET playlist == playlists[args.playlistId]
             allTracks == SortByPosition(
                              ByPositionIndex(TracksOf(tracks, args.playlistId)))
             shown == VisibleTracks(allTracks, args.includeAllTracks)
         IN  [kind |-> "playlist", _id |-> args.playlistId,
              source |-> playlist.source, status |-> playlist.status,
              totalTracks |-> playlist.totalTracks,
              readyTracks |-> playlist.readyTracks,
              unmatchedTracks |-> playlist.unmatchedTracks,
              tracks |-> [i \in DOMAIN shown |-> ReturnedTrack(shown[i])]]

\* the fields of a playlist that listMine returns
ListedPlaylist(p) ==
    [_id |-> p, source |-> playlists[p].source,
     sourcePlaylistId |-> playlists[p].sourcePlaylistId,
     status |-> playlists[p].status, totalTracks |-> playlists[p].totalTracks,
     readyTracks |-> playlists[p].readyTracks,
     unmatchedTracks |-> playlists[p].unmatchedTracks]

\* index by_ownerUserId, eq ownerUserId: the ids, in creation order
RECURSIVE OwnedFrom(_, _)
OwnedFrom(identity, p) ==
    IF p > Len(playlists) THEN <<>>
    ELSE IF playlists[p].ownerUserId = identity
         THEN <<p>> \o OwnedFrom(identity, p + 1)
         ELSE OwnedFrom(identity, p + 1)

\* playlists.listMine
listMine(identity) ==
    IF identity = Undefined THEN <<>>
    ELSE LET owned == OwnedFrom(identity, 1)
         IN  [i \in DOMAIN owned |-> ListedPlaylist(owned[i])]

Get(identity, args) ==
    /\ lastCall' = [op |-> "get", identity |-> identity, args |-> args,
                    result |-> get(identity, args)]
    /\ UNCHANGED <<playlists, tracks, nextTrackId, runs, imports>>

ListMine(identity) ==
    /\ lastCall' = [op |-> "listMine", identity |-> identity,
                    result |-> listMine(identity)]
    /\ UNCHANGED <<playlists, tracks, nextTrackId, runs, imports>>

\* the imports the queries are checked with: two owners, Spotify lists whose
\* positions ascend or descend
ReadImportArgs ==
    LET plain == <<WithPosition(SeedPlain, 0)>>
        mixed == <<WithPosition(SeedPlain, 0), WithPosition(SeedResolved, 1)>>
        twice == <<WithPosition(SeedPlain, 0), WithPosition(SeedPlain, 1)>>
        lists == {<<>>, plain, mixed, ReversedPositions(twice)}
    IN  {a \in ArgsOver(PlaylistKeys, lists) : a.source = "spotify"}

\* the marks are those of a batch run on a track it fetched as pending
NextReads ==
    \/ \E args \in ReadImportArgs : Upsert(args) /\ UNCHANGED observerVars
    \/ \E t \in {u \in tracks : u.status = "pending"},
          result \in {x \in BatchResults : x.matched} :
          MarkTrackReady(t._id, result) /\ UNCHANGED observerVars
    \/ \E t \in {u \in tracks : u.status = "pending"},
          result \in {x \in BatchResults : ~x.matched} :
          MarkTrackUnmatched(t._id, result.reason) /\ UNCHANGED observerVars
    \/ \E identity \in Callers, p \in 1..MaxImports, f \in {<<>>, <<FALSE>>, <<TRUE>>} :
          Get(identity, [playlistId |-> p, includeAllTracks |-> f])
             /\ UNCHANGED observerVars
    \/ \E identity \in Callers : ListMine(identity) /\ UNCHANGED observerVars

SpecReads == Init /\ [][NextReads]_vars

(***************************************************************************)
(* Specification of the Normalizer: normalizeString applied to a pair of   *)
(* strings and to its own results, stringsSimilar applied to the pair as   *)
(* given and as the Resolver applies it, to the normalized pair            *)
(***************************************************************************)
\* every string up to MaxStrLen over a letter, two kinds of white space
\* and a punctuation character
NormalizerStrings == SeqsUpTo({"A", " ", "\t", "!"}, MaxStrLen)

TheBeatles == <<"T", "h", "e", " ", "B", "e", "a", "t", "l", "e", "s">>

Beatles == <<"b", "e", "a", "t", "l", "e", "s">>

ABCDE == <<"a", " ", "b", " ", "c", " ", "d", " ", "e">>

ABCDX == <<"a", " ", "b", " ", "c", " ", "d", " ", "x">>

AB == <<"a", " ", "b">>

CD == <<"c", " ", "d">>

ExamplePairs ==
    {[a |-> TheBeatles, b |-> Beatles], [a |-> ABCDE, b |-> ABCDX],
     [a |-> AB, b |-> CD]}

\* s with the white space character c put in after its first i characters
InsertAt(s, i, c) == SubSeq(s, 1, i) \o <<c>> \o SubSeq(s, i + 1, Len(s))

\* s, and s with one more white space character at an end or next to
\* white space
Widened(s) ==
    {s} \cup
    {InsertAt(s, i, c) : i \in {k \in 0..Len(s) :
                                  \/ k = 0
                                  \/ k = Len(s)
                                  \/ IsSpaceChar(s[k])
                                  \/ IsSpaceChar(s[k + 1])},
                        c \in {" ", "\t"}}

\* normalized strings of one to five words, with words in common, words
\* inside other words and the empty string
SimilarStrings ==
    {<<>>, <<"a">>, <<"b">>, <<"a", "b">>,
     <<"a", " ", "b">>, <<"b", " ", "a">>, <<"a", "b", " ", "a">>,
     <<"b", " ", "a", "b">>, <<"a", " ", "b", " ", "c">>,
     <<"a", " ", "b", " ", "c", " ", "d">>, <<"a", " ", "b", " ", "c", " ", "x">>,
     ABCDE, ABCDX}

\* every string with itself and with its widened forms, the examples of the
\* documentation, the pairs of normalized strings, strings with digits, an
\* underscore and other punctuation, and strings with letters and white
\* space outside ASCII
NormalizerInputs ==
    UNION {{[a |-> a, b |-> b] : b \in Widened(a)} : a \in NormalizerStrings}
        \cup ExamplePairs
        \cup {[a |-> a, b |-> b] : a \in SimilarStrings, b \in SimilarStrings}
        \cup {[a |-> <<"A", "_", "1">>, b |-> <<"_">>],
              [a |-> <<"a", "1", " ", "!", "B", "2">>,
               b |-> <<"-", "A", ".", "\t", "9">>],
              [a |-> <<"É", "U+212A", "U+0130", "a", "U+03A3", "\r", "\f", "b",
                      "U+D801", "U+DC00">>,
               b |-> <<" ", "a", "U+2003", "", "b", "U+FEFF">>]}

InitNormalizer ==
    /\ playlists = <<>>
    /\ tracks = {}
    /\ nextTrackId = 1
    /\ runs = [r \in RunIds |-> NoRun]
    /\ imports = 0
    /\ lastCall = NoCall
    /\ rIn \in {<<pair>> : pair \in NormalizerInputs}
    /\ rOut = <<>>
    /\ trace = <<>>
    /\ store = InitialStore
    /\ wrapped = [w \in WrapIds |-> "none"]

\* normalizeString(a), normalizeString(b)
Normalize ==
    /\ rOut = <<>>
    /\ rOut' = <<[op |-> "normalize", a |-> normalizeString(rIn[1].a),
                  b |-> normalizeString(rIn[1].b)]>>
    /\ UNCHANGED <<rIn, pipelineVars, trace, storeVars>>

\* normalizeString applied to what normalizeString returned
NormalizeAgain ==
    /\ Len(rOut) = 1
    /\ rOut[1].op = "normalize"
    /\ rOut' = Append(rOut, [op |-> "normalize", a |-> normalizeString(rOut[1].a),
                             b |-> normalizeString(rOut[1].b)])
    /\ UNCHANGED <<rIn, pipelineVars, trace, storeVars>>

\* stringsSimilar(a, b)
Similar ==
    /\ rOut = <<>>
    /\ rOut' = <<[op |-> "similar", value |-> stringsSimilar(rIn[1].a, rIn[1].b)]>>
    /\ UNCHANGED <<rIn, pipelineVars, trace, storeVars>>

\* stringsSimilar(normalizeString(a), normalizeString(b)), the call of the
\* Resolver's candidate loop
SimilarNormalized ==
    /\ rOut = <<>>
    /\ rOut' = <<[op |-> "similarNormalized",
                  value |-> stringsSimilar(normalizeString(rIn[1].a),
                                           normalizeString(rIn[1].b))]>>
    /\ UNCHANGED <<rIn, pipelineVars, trace, storeVars>>

NextNormalizer == Normalize \/ NormalizeAgain \/ Similar \/ SimilarNormalized

SpecNormalizer == InitNormalizer /\ [][NextNormalizer]_vars

(***************************************************************************)
(* Specification of the drag-and-drop list: the queries deliver games and  *)
(* timelines, the list is reset, the mystery card inserted and removed.    *)
(***************************************************************************)
serverVars == <<playlists, tracks, nextTrackId, runs, imports, rIn, rOut, trace>>

NextDnd ==
    \/ \E game \in Games \cup {Null} : setGame(game) /\ UNCHANGED serverVars
    \/ \E timelines \in {<<>>, <<[playerId |-> "p1", cards |-> <<"c1", "c2">>],
                                 [playerId |-> "p2", cards |-> <<"c3">>]>>} :
          setTimelines(timelines) /\ UNCHANGED serverVars
    \/ resetDndState /\ UNCHANGED serverVars
    \/ \E index \in {-1, 0, 1, 5} : insertMysteryCard(index) /\ UNCHANGED serverVars
    \/ removeMysteryCard /\ UNCHANGED serverVars

SpecDnd == Init /\ [][NextDnd]_vars

(***************************************************************************)
(* Specification of the store: every function of the store is called, in   *)
(* any order, and wrapped actions start and settle in any order. The game  *)
(* is at the seat of p1, whose timeline is delivered with it.              *)
(***************************************************************************)
NextStore ==
    \/ \E game \in {Null} \cup {g \in Games : /\ g.currentTurnSeatIndex = 0
                                               /\ g.placementIndex \in {{}, {1}}} :
          setGame(game) /\ UNCHANGED serverVars
    \/ \E timelines \in {<<[playerId |-> "p1", cards |-> <<"c1", "c2">>]>>} :
          setTimelines(timelines) /\ UNCHANGED serverVars
    \/ resetDndState /\ UNCHANGED serverVars
    \/ \E index \in {-1, 0, 1, 5} : insertMysteryCard(index) /\ UNCHANGED serverVars
    \/ removeMysteryCard /\ UNCHANGED serverVars
    \/ \E items \in {<<"c2", "c1">>, <<MYSTERY_CARD_ID, "c1", MYSTERY_CARD_ID>>} :
          setDndItems(items) /\ UNCHANGED serverVars
    \/ \E activeId \in {Null, [id |-> "c1"]} :
          setDndActiveId(activeId) /\ UNCHANGED serverVars
    \/ \E wasExternalDrag \in BOOLEAN :
          setWasExternalDrag(wasExternalDrag) /\ UNCHANGED serverVars
    \/ \E loading \in BOOLEAN : setActionLoading(loading) /\ UNCHANGED serverVars
    \/ \E error \in {Null, [message |-> "boom"]} :
          setActionError(error) /\ UNCHANGED serverVars
    \/ clearActionError /\ UNCHANGED serverVars
    \/ \E w \in WrapIds, called \in {"returns", "throwsError", "throwsOther"} :
          wrapAction(w, called) /\ UNCHANGED serverVars
    \/ \E w \in WrapIds, outcome \in {"fulfilled", "rejectedWithError", "rejectedOther"} :
          wrapActionSettles(w, outcome) /\ UNCHANGED serverVars

SpecStore == Init /\ [][NextStore]_vars

(***************************************************************************)
(* Claims                                                                  *)
(***************************************************************************)
PlaylistIds == DOMAIN playlists

PendingOf(playlistId) == WithStatus(tracks, playlistId, "pending")

\* C1: between two imports a track that is ready or unmatched never changes
\* status again, under any interleaving of processPlaylistBatch runs (a
\* track that an upsert deletes is not a track that changes status).
C1_StatusChangesOnce ==
    [][\A t \in tracks : \A u \in tracks' :
          (u._id = t._id /\ t.status # "pending") => u.status = t.status]_vars

ResolverReturned == rOut # <<>>

SearchRan ==
    \E i \in DOMAIN rOut[1].calls : rOut[1].calls[i].fn = "searchCatalog"

\* the similarity test of the claim: the candidate's normalized title and
\* normalized artist both resemble the input's
Resembles(args, candidate) ==
    /\ stringsSimilar(normalizeString(args.title), normalizeString(candidate.title))
    /\ stringsSimilar(normalizeString(args.artist),
                      normalizeString(candidate.artistName))

SearchReturnedSome ==
    /\ SearchRan
    /\ rIn[1].searchAnswer.kind = "returns"
    /\ rIn[1].searchAnswer.results # <<>>

NoCandidateResembles ==
    \A i \in DOMAIN rIn[1].searchAnswer.results :
        ~Resembles(rIn[1].args, rIn[1].searchAnswer.results[i])

ResultFields ==
    {"appleMusicId", "title", "artistName", "albumName", "releaseYear",
     "releaseDate", "previewUrl", "artworkUrl", "isrc"}

\* the call returned Matched carrying exactly the fields of entry e
MatchedWith(e) ==
    /\ rOut[1].result.matched
    /\ DOMAIN rOut[1].result = ResultFields \cup {"matched"}
    /\ \A f \in ResultFields : rOut[1].result[f] = e[f]

\* C2: resolveTrackToAppleMusic returns Unmatched only when the text search
\* throws or returns no candidate; when the search returns candidates and
\* none passes the similarity test, it returns Matched built from the
\* first-ranked candidate.
C2_UnmatchedOnlyWithoutCandidates ==
    ResolverReturned =>
        /\ ~rOut[1].result.matched =>
              /\ SearchRan
              /\ \/ rIn[1].searchAnswer.kind = "throws"
                 \/ rIn[1].searchAnswer.results = <<>>
        /\ (SearchReturnedSome /\ NoCandidateResembles) =>
              MatchedWith(rIn[1].searchAnswer.results[1])

C2_Witness ==
    /\ ResolverReturned
    /\ SearchReturnedSome
    /\ NoCandidateResembles
    /\ Len(rIn[1].searchAnswer.results) > 1
    /\ rOut[1].result.matched

IsrcLookupReturnedEntry ==
    /\ rIn[1].args.isrc # Undefined
    /\ rIn[1].isrcAnswer.kind = "returns"
    /\ rIn[1].isrcAnswer.hit # <<>>

\* C3: when the input has an ISRC and the identifier lookup returns an
\* entry, the call returns Matched with exactly that entry's fields and
\* searchCatalog is not invoked.
C3_IsrcHitIsAuthoritative ==
    (ResolverReturned /\ IsrcLookupReturnedEntry) =>
        /\ MatchedWith(rIn[1].isrcAnswer.hit[1])
        /\ ~SearchRan

C3_Witness ==
    /\ ResolverReturned
    /\ IsrcLookupReturnedEntry
    /\ rIn[1].searchAnswer.kind = "returns"
    /\ rIn[1].searchAnswer.results # <<>>
    /\ rIn[1].searchAnswer.results[1] # rIn[1].isrcAnswer.hit[1]
    /\ rOut[1].result.appleMusicId = rIn[1].isrcAnswer.hit[1].appleMusicId

\* C4: when searchCatalog throws the call returns Unmatched with reason
\* "Search failed", when it returns an empty list Unmatched with reason
\* "No results found"; the call itself returns in both cases.
C4_SearchFailureReasons ==
    (ResolverReturned /\ SearchRan) =>
        /\ rIn[1].searchAnswer.kind = "throws" =>
              rOut[1].result = [matched |-> FALSE, reason |-> "Search failed"]
        /\ (rIn[1].searchAnswer.kind = "returns"
                /\ rIn[1].searchAnswer.results = <<>>) =>
              rOut[1].result = [matched |-> FALSE, reason |-> "No results found"]

C4_Witness ==
    /\ ResolverReturned
    /\ rIn[1].args.isrc # Undefined
    /\ rIn[1].isrcAnswer.kind = "throws"
    /\ rIn[1].searchAnswer.kind = "throws"
    /\ rOut[1].result.reason = "Search failed"

\* C5: whenever a processPlaylistBatch run finishes without scheduling a
\* successor, the playlist record has readyTracks + unmatchedTracks equal to
\* totalTracks and status ready.
C5_FinishedRunLeavesReady ==
    [][\A r \in RunIds :
          (runs[r].pc \in {"counts", "finalCounts"} /\ runs'[r].pc = "done") =>
              LET playlist == playlists'[runs[r].playlistId]
              IN  /\ playlist.readyTracks + playlist.unmatchedTracks
                        = playlist.totalTracks
                  /\ playlist.status = "ready"]_vars

\* C6: in every reachable state of every playlist record,
\* readyTracks + unmatchedTracks <= totalTracks.
C6_CountsWithinTotal ==
    \A p \in PlaylistIds :
        playlists[p].readyTracks + playlists[p].unmatchedTracks
            <= playlists[p].totalTracks

C6_Witness ==
    \E p \in PlaylistIds :
        /\ Len(playlists) > 1
        /\ playlists[p].readyTracks >= 1
        /\ playlists[p].unmatchedTracks >= 1
        /\ playlists[p].totalTracks = 2

\* C7 as stated: a playlist has status ready if and only if it has no
\* pending track and was not marked failed.
C7_ReadyIffNoPending ==
    \A p \in PlaylistIds :
        (playlists[p].status = "ready")
            <=> (PendingOf(p) = {} /\ playlists[p].status # "failed")

\* C7 as amended: a playlist with status ready has no pending track.
C7_ReadyImpliesNoPending ==
    \A p \in PlaylistIds :
        playlists[p].status = "ready" => PendingOf(p) = {}

C7_Witness ==
    \E p \in PlaylistIds :
        /\ playlists[p].status = "ready"
        /\ playlists[p].source = "spotify"
        /\ playlists[p].unmatchedTracks = 1
        /\ WithStatus(tracks, p, "unmatched") # {}
        /\ imports = MaxImports

\* the track of the playlist that was inserted for element i of args.tracks
InsertedFor(playlistId, track) ==
    {t \in TracksOf(tracks, playlistId) :
        /\ t.position = track.position
        /\ t.title = track.title
        /\ t.artistNames = track.artistNames
        /\ t.isrc = track.isrc
        /\ t.spotifyTrackId = track.spotifyTrackId}

\* C8: after upsertPlaylistWithTracks for a pair that already has a
\* playlist, the playlist's tracks are exactly the tracks of the new list,
\* none of the previous import survives, and totalTracks is the length of
\* the new list.
C8_UpsertReplacesTracks ==
    (lastCall.op = "upsert" /\ lastCall.existed) =>
        LET p == lastCall.playlistId
            new == lastCall.args.tracks
        IN  /\ \A t \in TracksOf(tracks, p) :
                  t._id \notin {b._id : b \in lastCall.before}
            /\ Cardinality(TracksOf(tracks, p)) = Len(new)
            /\ \A i \in DOMAIN new : Cardinality(InsertedFor(p, new[i])) = 1
            /\ playlists[p].totalTracks = Len(new)

C8_Witness ==
    /\ lastCall.op = "upsert"
    /\ lastCall.existed
    /\ Len(lastCall.args.tracks) = 1
    /\ Cardinality(lastCall.before) = 2
    /\ \E b \in lastCall.before : b.status = "unmatched"
    /\ \E b \in lastCall.before : b.status = "ready"

\* the claim's test: the track carries a target id, a preview URL and a
\* release year
CarriesResolution(track) ==
    /\ track.appleMusicId # Undefined
    /\ track.previewUrl # Undefined
    /\ track.releaseYear # {}

\* C9: upsertPlaylistWithTracks seeds a track ready if the source is
\* appleMusic or the track carries a target id, a preview URL and a release
\* year, and pending otherwise; none is inserted unmatched.
C9_SeededStatus ==
    lastCall.op = "upsert" =>
        \A i \in DOMAIN lastCall.args.tracks :
            /\ InsertedFor(lastCall.playlistId, lastCall.args.tracks[i]) # {}
            /\ \A t \in InsertedFor(lastCall.playlistId, lastCall.args.tracks[i]) :
                t.status =
                    IF \/ lastCall.args.source = "appleMusic"
                       \/ CarriesResolution(lastCall.args.tracks[i])
                    THEN "ready" ELSE "pending"

C9_Witness ==
    /\ lastCall.op = "upsert"
    /\ lastCall.args.source = "spotify"
    /\ \E t \in TracksOf(tracks, lastCall.playlistId) :
          t.status = "pending" /\ t.appleMusicId # Undefined
    /\ \E t \in TracksOf(tracks, lastCall.playlistId) : t.status = "ready"

\* C10: right after upsertPlaylistWithTracks commits, readyTracks is the
\* number of inserted tracks with status ready and unmatchedTracks is 0.
C10_CountsReflectNewSet ==
    lastCall.op = "upsert" =>
        LET p == lastCall.playlistId
        IN  /\ playlists[p].readyTracks = Cardinality(WithStatus(tracks, p, "ready"))
            /\ playlists[p].unmatchedTracks = 0

\* the call that returned last is playlists.get, and it returned a playlist
GetReturnedPlaylist == lastCall.op = "get" /\ lastCall.result.kind = "playlist"

\* C11: playlists.get returns the playlist's tracks by ascending position;
\* without includeAllTracks = true exactly the ready tracks of the playlist,
\* with includeAllTracks = true every track of the playlist.
C11_GetReturnsOrderedReadyTracks ==
    GetReturnedPlaylist =>
        LET returned == lastCall.result.tracks
            all == TracksOf(tracks, lastCall.args.playlistId)
            expected == IF lastCall.args.includeAllTracks = <<TRUE>> THEN all
                        ELSE {t \in all : t.status = "ready"}
        IN  /\ \A i, j \in DOMAIN returned :
                  i < j => returned[i].position <= returned[j].position
            /\ {returned[i]._id : i \in DOMAIN returned} = {t._id : t \in expected}
            /\ Len(returned) = Cardinality(expected)
            /\ \A i \in DOMAIN returned : \E t \in expected :
                  /\ t._id = returned[i]._id
                  /\ t.status = returned[i].status
                  /\ t.position = returned[i].position

C11_Witness ==
    /\ GetReturnedPlaylist
    /\ lastCall.args.includeAllTracks = <<>>
    /\ Len(lastCall.result.tracks) = 1
    /\ lastCall.result.tracks[1].position = 1
    /\ \E t \in TracksOf(tracks, lastCall.args.playlistId) :
          t.status = "unmatched" /\ t.position = 0 /\ t._id > lastCall.result.tracks[1]._id

\* C12: playlists.get returns null when the caller is not authenticated,
\* the playlist does not exist or its owner is not the caller; listMine
\* returns the empty list when the caller is not authenticated and otherwise
\* exactly the caller's playlists.
C12_ReadsAreOwnerOnly ==
    /\ lastCall.op = "get" =>
          (lastCall.result = Null) <=>
              \/ lastCall.identity = Undefined
              \/ lastCall.args.playlistId \notin PlaylistIds
              \/ playlists[lastCall.args.playlistId].ownerUserId # lastCall.identity
    /\ lastCall.op = "listMine" =>
          /\ lastCall.identity = Undefined => lastCall.result = <<>>
          /\ {lastCall.result[i]._id : i \in DOMAIN lastCall.result}
                = {p \in PlaylistIds : playlists[p].ownerUserId = lastCall.identity}
          /\ Len(lastCall.result)
                = Cardinality({p \in PlaylistIds :
                                  playlists[p].ownerUserId = lastCall.identity})

C12_Witness ==
    /\ lastCall.op = "get"
    /\ lastCall.identity = "u2"
    /\ lastCall.result = Null
    /\ lastCall.args.playlistId \in PlaylistIds
    /\ playlists[lastCall.args.playlistId].ownerUserId = "u1"
    /\ Len(playlists) = 2
    /\ playlists[2].ownerUserId = "u2"

TraceOf(op) == SelectSeq(trace, LAMBDA e : e.op = op)

\* the playlist of the one import has n tracks, and its run has returned
\* without a successor
BatchesFinished(n) ==
    /\ imports = 1
    /\ playlists[1].totalTracks = n
    /\ runs[1].pc = "done"

\* C13: from N > 0 pending tracks, one trigger and no concurrent run, the
\* Coordinator makes ceil(N / BATCH_SIZE) runs, run k fetching
\* min(BATCH_SIZE, what is left) tracks, and calls the Resolver N times, once
\* per track, each call followed by the rate-limit delay before the next;
\* no run fetches an empty batch.
C13_BatchCounts ==
    /\ (imports = 1 /\ playlists[1].totalTracks > 0) =>
          \A k \in DOMAIN TraceOf("start") : TraceOf("start")[k].size > 0
    /\ \A n \in 1..(MaxBatchTracks + 1) : BatchesFinished(n) =>
          LET starts == TraceOf("start")
              resolves == TraceOf("resolve")
              calls == SelectSeq(trace, LAMBDA e : e.op \in {"resolve", "delay"})
          IN  /\ Len(starts) = (n + BATCH_SIZE - 1) \div BATCH_SIZE
              /\ \A k \in DOMAIN starts :
                    starts[k].size = Min(BATCH_SIZE, n - (k - 1) * BATCH_SIZE)
              /\ Len(resolves) = n
              /\ {resolves[i].trackId : i \in DOMAIN resolves}
                    = {t._id : t \in TracksOf(tracks, 1)}
              /\ Len(calls) = 2 * n
              /\ \A i \in 1..n :
                    /\ calls[2 * i - 1].op = "resolve"
                    /\ calls[2 * i].op = "delay"
                    /\ calls[2 * i].trackId = calls[2 * i - 1].trackId

C13_Witness ==
    /\ BatchesFinished(25)
    /\ Len(TraceOf("start")) = 3
    /\ TraceOf("start")[3].size = 5
    /\ Len(TraceOf("schedule")) = 2
    /\ WithStatus(tracks, 1, "unmatched") # {}

\* the track that run r holds at position i of its batch is in the table
\* with a status other than pending
HoldsSettledTrack(r) ==
    \E t \in tracks :
        /\ t._id = runs[r].pendingTracks[runs[r].i]._id
        /\ t.status # "pending"

\* C14: a track that is already ready or unmatched is never passed to the
\* Resolver again, and its record is never rewritten by a mark mutation.
C14_SettledTracksAreLeftAlone ==
    [][\A r \in RunIds :
          /\ (runs[r].pc = "resolve" /\ runs'[r].pc = "mark") => ~HoldsSettledTrack(r)
          /\ (runs[r].pc = "mark" /\ runs'[r].pc = "delay") => ~HoldsSettledTrack(r)]_vars

\* C18: in every reachable state a track has a target id or a preview URL
\* only if its status is ready, and an unmatchedReason only if its status is
\* unmatched.
C18_FieldsMatchStatus ==
    \A t \in tracks :
        /\ (t.appleMusicId # Undefined \/ t.previewUrl # Undefined)
              => t.status = "ready"
        /\ t.unmatchedReason # Undefined => t.status = "unmatched"

\* run r is handed to the scheduler or in flight
RunActive(r) ==
    runs[r].pc \in {"scheduled", "resolve", "mark", "delay", "counts",
                    "finalCounts", "schedule"}

\* C20: in every reachable state each playlist has at most one
\* processPlaylistBatch run in flight or scheduled.
C20_OneRunPerPlaylist ==
    \A p \in PlaylistIds :
        Cardinality({r \in RunIds : RunActive(r) /\ runs[r].playlistId = p}) <= 1

\* the pieces of s between runs of white space
RECURSIVE WordsBetweenSpaces(_, _)
WordsBetweenSpaces(s, cur) ==
    IF s = <<>> THEN (IF cur = <<>> THEN <<>> ELSE <<cur>>)
    ELSE IF IsSpaceChar(Head(s))
         THEN (IF cur = <<>> THEN <<>> ELSE <<cur>>) \o WordsBetweenSpaces(Tail(s), <<>>)
         ELSE WordsBetweenSpaces(Tail(s), Append(cur, Head(s)))

\* a and b differ at most in the amount of white space between words and at
\* the ends
SameWords(a, b) == WordsBetweenSpaces(a, <<>>) = WordsBetweenSpaces(b, <<>>)

\* C16: normalizeString(normalizeString(s)) = normalizeString(s) for every
\* string s, and two strings that differ only in the amount of white space
\* between words or at the ends have the same normalizeString.
C16_NormalizeIdempotent ==
    /\ (Len(rOut) >= 1 /\ rOut[1].op = "normalize" /\ SameWords(rIn[1].a, rIn[1].b))
          => rOut[1].a = rOut[1].b
    /\ (Len(rOut) = 2 /\ rOut[1].op = "normalize")
          => (rOut[2].a = rOut[1].a /\ rOut[2].b = rOut[1].b)

C16_Witness ==
    /\ Len(rOut) = 2
    /\ rOut[1].op = "normalize"
    /\ rIn[1].a = <<"A", " ", "!", " ", "A">>
    /\ rIn[1].b = <<"A", " ", "\t", "!", " ", "A">>
    /\ rOut[2].a = <<"a", " ", "a">>

\* the call of stringsSimilar on the pair, as given, returned value
SimilarReturned(pair, value) ==
    /\ rOut # <<>>
    /\ rIn[1] = pair
    /\ rOut[1].op = "similar"
    /\ rOut[1].value = value

\* C17 as stated: stringsSimilar("The Beatles", "beatles") is true,
\* stringsSimilar("a b c d e", "a b c d x") is true and
\* stringsSimilar("a b", "c d") is false.
C17_SimilarExamples ==
    (rOut # <<>> /\ rOut[1].op = "similar" /\ rIn[1] \in ExamplePairs) =>
        \/ SimilarReturned([a |-> TheBeatles, b |-> Beatles], TRUE)
        \/ SimilarReturned([a |-> ABCDE, b |-> ABCDX], TRUE)
        \/ SimilarReturned([a |-> AB, b |-> CD], FALSE)

\* C17 as amended: stringsSimilar is true of the normalized "The Beatles" and
\* "beatles"; the other two examples are as stated.
C17_SimilarExamplesNormalized ==
    /\ (rOut # <<>> /\ rOut[1].op = "similarNormalized"
            /\ rIn[1] = [a |-> TheBeatles, b |-> Beatles]) => rOut[1].value
    /\ (rOut # <<>> /\ rOut[1].op = "similar"
            /\ rIn[1] = [a |-> ABCDE, b |-> ABCDX]) => rOut[1].value
    /\ (rOut # <<>> /\ rOut[1].op = "similar"
            /\ rIn[1] = [a |-> AB, b |-> CD]) => ~rOut[1].value

C17_Witness ==
    /\ rOut # <<>>
    /\ rOut[1].op = "similarNormalized"
    /\ rIn[1] = [a |-> TheBeatles, b |-> Beatles]
    /\ rOut[1].value

\* the step is one of the pipeline: a mark mutation or updatePlaylistCounts,
\* not a mutation of Intake
PipelineStep == lastCall'.op = "other"

\* C19: a step of the pipeline changes a playlist's status only to ready or
\* processing, and does not change the status of a playlist that Intake
\* marked failed.
C19_PipelineStatusWrites ==
    [][PipelineStep =>
          \A p \in PlaylistIds :
              playlists'[p].status # playlists[p].status =>
                  /\ playlists'[p].status \in {"ready", "processing"}
                  /\ playlists[p].status # "failed"]_vars

\* every playlist is ready with no pending track, and no run is scheduled or
\* in flight
Quiescent ==
    /\ \A p \in PlaylistIds :
          PendingOf(p) = {} /\ playlists[p].status = "ready"
    /\ \A r \in RunIds : ~RunActive(r)

\* C15: after an import that triggers the first run, under fair scheduling,
\* the playlist eventually has no pending track, status ready and no run in
\* flight or scheduled, also when a run crashes and is triggered again.
C15_EventuallyReady == (imports > 0) ~> Quiescent

C15_Witness ==
    /\ Quiescent
    /\ imports = MaxImports
    /\ Len(trace) = MaxCrashes
    /\ \A r \in RunIds : runs[r].pc = "done"
    /\ WithStatus(tracks, 1, "unmatched") # {}
    /\ WithStatus(tracks, 1, "ready") # {}

\* C21: when a playlist is re-imported while a run is in progress, no track
\* the re-import deleted is recreated or written, a mark mutation writes no
\* track but the one its result was resolved for, and a mark mutation for a
\* track that no longer exists fails without writing.
C21_StaleWorkIsDropped ==
    [][/\ \A u \in tracks' :
             u._id < nextTrackId => \E t \in tracks : t._id = u._id
       /\ \A r \in RunIds :
             (runs[r].pc = "mark" /\ runs'[r].pc # "mark") =>
                 LET trackId == runs[r].pendingTracks[runs[r].i]._id
                 IN  /\ \A t \in tracks : \A u \in tracks' :
                           (u._id = t._id /\ u # t) => t._id = trackId
                     /\ ~(\E t \in tracks : t._id = trackId) =>
                           (tracks' = tracks /\ runs'[r].pc = "failed")]_vars

C21_Witness ==
    /\ imports = 2
    /\ runs[1].pc = "failed"
    /\ runs[1].playlistId = runs[2].playlistId
    /\ runs[2].pc = "done"
    /\ WithStatus(tracks, 1, "ready") # {}
    /\ \A t \in tracks : t._id > 2

\* the stored counters and status of playlist p in db state (pl, tr) are the
\* counts by status of its tracks
CountersMatch(pl, tr, p) ==
    /\ pl[p].readyTracks = Cardinality({t \in tr : t.playlistId = p /\ t.status = "ready"})
    /\ pl[p].unmatchedTracks
          = Cardinality({t \in tr : t.playlistId = p /\ t.status = "unmatched"})
    /\ pl[p].status = IF \E t \in tr : t.playlistId = p /\ t.status = "pending"
                      THEN "processing" ELSE "ready"

\* C22: updatePlaylistCounts writes the counts by status of the playlist's
\* tracks of its own snapshot, with status ready iff none is pending, and
\* the run that called it continues on the pending count of that snapshot;
\* when no run is scheduled or in flight any more, the stored counters of
\* every playlist equal the actual counts.
C22_AggregatorIsAtomic ==
    [][/\ \A r \in RunIds :
             (runs[r].pc \in {"counts", "finalCounts"} /\ runs'[r].pc # runs[r].pc) =>
                 /\ tracks' = tracks
                 /\ CountersMatch(playlists', tracks, runs[r].playlistId)
                 /\ \A p \in PlaylistIds : p # runs[r].playlistId =>
                       playlists'[p] = playlists[p]
                 /\ runs[r].pc = "counts" =>
                       (runs'[r].pc = "schedule") <=> (PendingOf(runs[r].playlistId) # {})
       /\ (\A r \in RunIds : runs'[r].pc \in {"none", "done", "failed"}) =>
             \A p \in DOMAIN playlists' : CountersMatch(playlists', tracks', p)]_vars

C22_Witness ==
    /\ imports = 2
    /\ \A r \in RunIds : runs[r].pc = "done"
    /\ runs[1].playlistId = runs[2].playlistId
    /\ playlists[1].readyTracks = 1
    /\ playlists[1].unmatchedTracks = 1
    /\ CountersMatch(playlists, tracks, 1)

\* C23: in every reachable state readyTracks is at most the number of the
\* playlist's tracks with status ready and unmatchedTracks at most the
\* number of its tracks with status unmatched.
C23_CountersNeverOverstate ==
    \A p \in PlaylistIds :
        /\ playlists[p].readyTracks <= Cardinality(WithStatus(tracks, p, "ready"))
        /\ playlists[p].unmatchedTracks
              <= Cardinality(WithStatus(tracks, p, "unmatched"))

\* the playlists of table pl stored for the pair of arguments args
WithKey(pl, args) ==
    {p \in DOMAIN pl : /\ pl[p].ownerUserId = args.ownerUserId
                       /\ pl[p].sourcePlaylistId = args.sourcePlaylistId}

\* C24: the playlists table never holds two records for one pair
\* (ownerUserId, sourcePlaylistId); an upsert for a pair that has a record
\* returns the id of that record and adds none, and an upsert for a new pair
\* adds exactly one record and returns its id.
C24_OnePlaylistPerPair ==
    [][/\ \A p, q \in DOMAIN playlists' :
             (/\ playlists'[p].ownerUserId = playlists'[q].ownerUserId
              /\ playlists'[p].sourcePlaylistId = playlists'[q].sourcePlaylistId)
                 => p = q
       /\ imports' # imports =>
             LET args == lastCall'.args
                 old == WithKey(playlists, args)
             IN  /\ lastCall'.op = "upsert"
                 /\ WithKey(playlists', args) = {lastCall'.playlistId}
                 /\ old # {} => /\ old = {lastCall'.playlistId}
                                /\ Len(playlists') = Len(playlists)
                 /\ old = {} => /\ Len(playlists') = Len(playlists) + 1
                                /\ lastCall'.playlistId = Len(playlists')]_vars

\* the second of two upserts, from the other source, found the playlist of
\* its pair and no second record was added
C24_Witness ==
    /\ Len(playlists) = 1
    /\ imports = 2
    /\ lastCall.op = "upsert"
    /\ lastCall.existed
    /\ lastCall.args.source # playlists[lastCall.playlistId].source

\* the position of the track with the given id
PositionOf(db, trackId) == (CHOOSE t \in db : t._id = trackId).position

\* C25: the batch a run fetches has at most BATCH_SIZE tracks, all of them
\* pending tracks of the run's playlist, each once; they come in ascending
\* order of position, and no pending track left out has a lower position
\* than a track of the batch.
C25_BatchIsLowestPositions ==
    [][\A r \in RunIds :
          (runs[r].pc = "scheduled" /\ runs'[r].pc # "scheduled") =>
              LET batch == runs'[r].pendingTracks
                  pending == WithStatus(tracks, runs[r].playlistId, "pending")
                  ids == {batch[i]._id : i \in DOMAIN batch}
              IN  /\ Len(batch) = Min(BATCH_SIZE, Cardinality(pending))
                  /\ ids \subseteq {t._id : t \in pending}
                  /\ Cardinality(ids) = Len(batch)
                  /\ \A i, j \in DOMAIN batch :
                        i < j => PositionOf(tracks, batch[i]._id)
                                    < PositionOf(tracks, batch[j]._id)
                  /\ \A t \in pending : \A i \in DOMAIN batch :
                        t._id \notin ids =>
                            PositionOf(tracks, batch[i]._id) < t.position]_vars

\* the track with the given id
TrackWithId(db, trackId) == CHOOSE t \in db : t._id = trackId

\* C26: in a run the steps of a track are its Resolver call, the mutation
\* that persists the outcome, then the delay, and the Resolver call of the
\* next track comes only after the delay of the one before: a Resolver call
\* follows the start of the run or the delay of another track, a mark
\* follows the Resolver call of its track, a delay follows the mark of its
\* track whatever the outcome. When a Resolver call is issued every earlier
\* track of the batch is persisted. The mark writes ready, with the
\* Resolver's target id, for a matched result and unmatched, with the
\* Resolver's reason, otherwise.
C26_TracksOneAfterAnother ==
    [][/\ trace' # trace =>
             LET k == Len(trace')
                 step == trace'[k]
             IN  /\ step.op = "resolve" =>
                       /\ k > 1
                       /\ trace'[k - 1].op \in {"start", "delay"}
                       /\ trace'[k - 1].op = "delay" =>
                             trace'[k - 1].trackId # step.trackId
                 /\ step.op = "mark" =>
                       /\ k > 1
                       /\ trace'[k - 1] = [op |-> "resolve", trackId |-> step.trackId]
                 /\ step.op = "delay" =>
                       /\ k > 1
                       /\ trace'[k - 1] = [op |-> "mark", trackId |-> step.trackId]
                 /\ (k > 1 /\ trace'[k - 1].op \in {"resolve", "mark"}) =>
                       step.op \in {"mark", "delay"}
       /\ \A r \in RunIds :
             /\ (runs[r].pc = "resolve" /\ runs'[r].pc = "mark") =>
                   \A j \in 1..(runs[r].i - 1) :
                       TrackWithId(tracks, runs[r].pendingTracks[j]._id).status
                           \in {"ready", "unmatched"}
             /\ (runs[r].pc = "mark" /\ runs'[r].pc # "mark") =>
                   LET result == runs[r].result
                       after == TrackWithId(tracks', runs[r].pendingTracks[runs[r].i]._id)
                   IN  IF result.matched
                       THEN /\ after.status = "ready"
                            /\ after.appleMusicId = result.appleMusicId
                       ELSE /\ after.status = "unmatched"
                            /\ after.unmatchedReason = result.reason]_vars

\* the third track of a batch is about to be resolved, the first two were
\* persisted as unmatched and both delays were taken
C26_Witness ==
    /\ \E r \in RunIds : runs[r].pc = "resolve" /\ runs[r].i = 3
    /\ Len(TraceOf("delay")) = 2
    /\ Cardinality({t \in tracks : /\ t.status = "unmatched"
                                   /\ t.unmatchedReason = "Search failed"}) = 2

\* the steps logged since the last start of a run, the start included
SinceStart(tr) ==
    LET starts == {k \in DOMAIN tr : tr[k].op = "start"}
        last == CHOOSE k \in starts : \A j \in starts : j <= k
    IN  SubSeq(tr, last, Len(tr))

\* how many steps op the sequence tr has
CountOf(tr, op) == Len(SelectSeq(tr, LAMBDA e : e.op = op))

\* C27: a run that starts with an empty batch calls updatePlaylistCounts
\* next and does nothing after it: no Resolver call, no successor. A run with
\* a batch calls updatePlaylistCounts once, right after the delay of the last
\* track of the batch and not before; it then schedules one successor, for
\* its playlist, when the returned pendingCount is above 0 and does nothing
\* more when it is 0. A successor is scheduled in no other place, and the
\* chain ends with a call that returned pendingCount 0.
C27_AggregatorThenSuccessor ==
    [][/\ trace' # trace =>
             LET k == Len(trace')
                 step == trace'[k]
                 run == SinceStart(trace')
             IN  /\ k > 1 => trace'[1].op = "start"
                 /\ (k > 1 /\ trace'[k - 1].op = "start") =>
                       IF trace'[k - 1].size = 0
                       THEN step.op = "counts"
                       ELSE step.op = "resolve"
                 /\ (k > 1 /\ trace'[k - 1].op = "delay") =>
                       IF CountOf(run, "delay") = run[1].size
                       THEN step.op = "counts"
                       ELSE step.op = "resolve"
                 /\ step.op = "counts" =>
                       /\ CountOf(run, "counts") = 1
                       /\ CountOf(run, "resolve") = run[1].size
                       /\ CountOf(run, "schedule") = 0
                 /\ (k > 1 /\ trace'[k - 1].op = "counts") =>
                       /\ trace'[k - 1].pendingCount > 0
                       /\ run[1].size > 0
                       /\ step = [op |-> "schedule", playlistId |-> 1]
                 /\ step.op = "schedule" =>
                       /\ trace'[k - 1].op = "counts"
                       /\ CountOf(run, "schedule") = 1
                 /\ (k > 1 /\ trace'[k - 1].op = "schedule") =>
                       /\ step.op = "start"
                       /\ \E r \in RunIds :
                             runs[r].pc = "scheduled" /\ runs[r].playlistId = 1
       /\ (imports' = 1 /\ \A r \in RunIds : runs'[r].pc \in {"none", "done"}) =>
             /\ trace'[Len(trace')].op = "counts"
             /\ trace'[Len(trace')].pendingCount = 0
             /\ CountOf(trace', "schedule") + 1 = CountOf(trace', "start")]_vars

\* a list longer than a batch is done: the first run scheduled a successor
\* after its call of updatePlaylistCounts, the second did not
C27_Witness ==
    /\ imports = 1
    /\ \A r \in RunIds : runs[r].pc \in {"none", "done"}
    /\ CountOf(trace, "schedule") = 1
    /\ CountOf(trace, "counts") = 2
    /\ CountOf(trace, "resolve") = BATCH_SIZE + 2

\* C28: when the text search returns candidates and some candidate's
\* normalized title and normalized artist both resemble the input's,
\* resolveTrackToAppleMusic returns Matched with the fields of the first such
\* candidate in ranked order: the candidates before it, of which at most one
\* of title and artist resembles, are passed over, and no candidate after it
\* is returned.
C28_FirstCandidateResemblingBoth ==
    (ResolverReturned /\ SearchReturnedSome) =>
        LET results == rIn[1].searchAnswer.results
        IN  \A i \in DOMAIN results :
                (/\ Resembles(rIn[1].args, results[i])
                 /\ \A j \in 1..(i - 1) : ~Resembles(rIn[1].args, results[j])) =>
                    MatchedWith(results[i])

\* the first candidate resembles in the title only, the second in both, and
\* the second is returned
C28_Witness ==
    /\ ResolverReturned
    /\ SearchReturnedSome
    /\ rIn[1].searchAnswer.results = <<EntryTitleOnly, EntryBoth>>
    /\ rIn[1].args.title = TitleAbC
    /\ rOut[1].result.appleMusicId = "am1"

\* the identifier lookup ran and gave no entry: it threw or returned null
LookupGaveNothing ==
    /\ TruthyString(rIn[1].args.isrc)
    /\ \/ rIn[1].isrcAnswer.kind = "throws"
       \/ rIn[1].isrcAnswer.kind = "returns" /\ rIn[1].isrcAnswer.hit = <<>>

\* C29: when the input has an ISRC and searchByISRC throws or returns no
\* entry, resolveTrackToAppleMusic returns, after calling searchByISRC and
\* then searchCatalog, and its result is the result of the call with the same
\* title, artist and catalog answers and no ISRC.
C29_LookupFailureFallsThrough ==
    (ResolverReturned /\ LookupGaveNothing) =>
        /\ Len(rOut[1].calls) = 2
        /\ rOut[1].calls[1].fn = "searchByISRC"
        /\ rOut[1].calls[2].fn = "searchCatalog"
        /\ rOut[1].result =
              resolveTrackToAppleMusic([rIn[1].args EXCEPT !.isrc = Undefined],
                                       rIn[1].isrcAnswer, rIn[1].searchAnswer).result
        /\ rOut[1].result = TextSearch(rIn[1].args, rIn[1].searchAnswer)

\* the lookup threw and the text search found the track
C29_Witness ==
    /\ ResolverReturned
    /\ rIn[1].args.isrc = "USX"
    /\ rIn[1].isrcAnswer.kind = "throws"
    /\ rIn[1].searchAnswer.kind = "returns"
    /\ rIn[1].searchAnswer.results = <<EntryBoth>>
    /\ rOut[1].result.matched
    /\ rOut[1].result.appleMusicId = "am1"

\* the catalog answers of the track at place i of a batch
AnswersAt(i) == IF i = 1 THEN rIn[1] ELSE rIn[2]

\* with answers a the identifier lookup of a track with an ISRC gives an entry
LookupHits(a) == a.isrcAnswer.kind = "returns" /\ a.isrcAnswer.hit # <<>>

\* with answers a a catalog call made for the track throws
LookupFails(a) ==
    \/ a.isrcAnswer.kind = "throws"
    \/ ~LookupHits(a) /\ a.searchAnswer.kind = "throws"

\* C30: catalog calls that throw never end a run. Each Resolver call of the
\* loop returns a result, Unmatched with reason Search failed when the
\* search throws; when the run calls updatePlaylistCounts it has resolved and
\* marked every track of its batch, those after a track whose lookup failed
\* included: a track whose search threw is unmatched with reason Search
\* failed, a track whose identifier lookup threw and whose search found a
\* candidate is ready. The chain of runs ends with no pending track.
C30_LookupFailureKeepsBatch ==
    [][/\ \A r \in RunIds :
             /\ runs'[r].pc # "failed"
             /\ (runs[r].pc = "resolve" /\ runs'[r] # runs[r]) =>
                   /\ runs'[r].pc = "mark"
                   /\ (~LookupHits(AnswersAt(runs[r].i))
                          /\ AnswersAt(runs[r].i).searchAnswer.kind = "throws") =>
                         runs'[r].result = [matched |-> FALSE, reason |-> "Search failed"]
             /\ (runs[r].pc = "counts" /\ runs'[r].pc # "counts") =>
                   LET batch == runs[r].pendingTracks
                       run == SinceStart(trace)
                   IN  /\ CountOf(run, "resolve") = Len(batch)
                       /\ CountOf(run, "mark") = Len(batch)
                       /\ trace'[Len(trace')].op = "counts"
                       /\ \A i \in DOMAIN batch :
                             LET t == TrackWithId(tracks, batch[i]._id)
                                 a == AnswersAt(i)
                             IN  /\ t.status \in {"ready", "unmatched"}
                                 /\ (~LookupHits(a) /\ a.searchAnswer.kind = "throws") =>
                                       /\ t.status = "unmatched"
                                       /\ t.unmatchedReason = "Search failed"
                                 /\ (/\ a.isrcAnswer.kind = "throws"
                                     /\ a.searchAnswer.kind = "returns"
                                     /\ a.searchAnswer.results # <<>>) =>
                                       t.status = "ready"
       /\ (imports' = 1 /\ \A r \in RunIds : runs'[r].pc \in {"none", "done"}) =>
             /\ \A t \in tracks' : t.status # "pending"
             /\ trace'[Len(trace')].op = "counts"]_vars

\* twelve tracks are done in two runs; both calls for the first track of each
\* batch threw and these two tracks are unmatched, the identifier lookup of
\* the other tracks threw and their search found them
C30_Witness ==
    /\ imports = 1
    /\ \A r \in RunIds : runs[r].pc \in {"none", "done"}
    /\ rIn[1] = [isrcAnswer |-> Throws, searchAnswer |-> Throws]
    /\ rIn[2].isrcAnswer = Throws
    /\ rIn[2].searchAnswer = [kind |-> "returns", results |-> <<EntryBoth>>]
    /\ Cardinality({t \in tracks : /\ t.status = "unmatched"
                                   /\ t.unmatchedReason = "Search failed"}) = 2
    /\ Cardinality({t \in tracks : t.status = "ready"}) = BATCH_SIZE
    /\ CountOf(trace, "counts") = 2

\* the tracks of table db that belong to other playlists than p
TracksOutside(db, p) == {t \in db : t.playlistId # p}

\* C31: a step of a processPlaylistBatch run for playlist P, its call of
\* updatePlaylistCounts included, leaves the playlist record and every track
\* of every other playlist as they were, whatever runs of other playlists
\* are in flight.
C31_PlaylistsAreIndependent ==
    [][imports' = imports =>
          \A r \in RunIds :
              runs'[r] # runs[r] =>
                  LET p == runs[r].playlistId
                  IN  /\ DOMAIN playlists' = DOMAIN playlists
                      /\ \A q \in PlaylistIds : q # p => playlists'[q] = playlists[q]
                      /\ TracksOutside(tracks', p) = TracksOutside(tracks, p)]_vars

\* two playlists each have a run in flight: the run of playlist 1 has
\* marked its track unmatched while the run of playlist 2 holds a track of
\* the same source id, still pending
C31_Witness ==
    /\ Len(playlists) = 2
    /\ runs[1].playlistId = 1 /\ runs[1].pc = "delay"
    /\ runs[2].playlistId = 2 /\ runs[2].pc \in {"resolve", "mark"}
    /\ \E t \in TracksOf(tracks, 1) : t.status = "unmatched" /\ t.spotifyTrackId = "sp1"
    /\ \E t \in TracksOf(tracks, 2) : t.status = "pending" /\ t.spotifyTrackId = "sp1"

\* what fixes a track's place: its id, its playlist and its position
Places(db) ==
    {[_id |-> t._id, playlistId |-> t.playlistId, position |-> t.position] : t \in db}

\* the positions of a list of tracks, in the order of the list
PositionsOf(trs) == [i \in DOMAIN trs |-> trs[i].position]

\* C32: markTrackReady, markTrackUnmatched and updatePlaylistCounts leave the
\* id, playlistId and position of every track and the totalTracks of every
\* playlist as they were, and so insert and delete no track. An upsert gives
\* the playlist's tracks, in the order they were passed, the positions of
\* the input list, so that an upsert of the same list yields the same
\* positions again.
C32_PositionsAreStable ==
    [][/\ imports' = imports =>
             /\ Places(tracks') = Places(tracks)
             /\ Cardinality(tracks') = Cardinality(tracks)
             /\ DOMAIN playlists' = DOMAIN playlists
             /\ \A p \in PlaylistIds : playlists'[p].totalTracks = playlists[p].totalTracks
       /\ imports' # imports =>
             LET p == lastCall'.playlistId
                 args == lastCall'.args
             IN  /\ PositionsOf(ByCreation(TracksOf(tracks', p))) = PositionsOf(args.tracks)
                 /\ (lastCall.op = "upsert" /\ lastCall.args.tracks = args.tracks) =>
                       {t.position : t \in TracksOf(tracks', p)}
                           = {t.position : t \in TracksOf(tracks, p)}]_vars

\* the list with descending positions was upserted twice: the second upsert
\* replaced the tracks, one of them marked ready in between, and the new
\* tracks have the positions 1, 0 again
C32_Witness ==
    /\ imports = 2
    /\ lastCall.op = "upsert"
    /\ lastCall.existed
    /\ PositionsOf(lastCall.args.tracks) = <<1, 0>>
    /\ playlists[1].source = "spotify"
    /\ \E b \in lastCall.before : b.status = "ready" /\ b._id = 1
    /\ PositionsOf(ByCreation(TracksOf(tracks, 1))) = <<1, 0>>
    /\ \A t \in tracks : t._id > 2

\* b is a contiguous part of a
IsSubstring(b, a) ==
    \E i \in 1..(Len(a) + 1) : \E j \in 0..Len(a) : SubSeq(a, i, j) = b

\* the words of a normalized string: what stands between its spaces
WordsOf(s) == Range(WordsBetweenSpaces(s, <<>>))

\* the similarity of the documentation: equal, or one inside the other, or
\* at least four fifths of the larger word set in common
SimilarAsDocumented(a, b) ==
    \/ a = b
    \/ IsSubstring(a, b)
    \/ IsSubstring(b, a)
    \/ LET larger == Max(Cardinality(WordsOf(a)), Cardinality(WordsOf(b)))
       IN  /\ larger > 0
           /\ 5 * Cardinality(WordsOf(a) \cap WordsOf(b)) >= 4 * larger

\* C33: for strings a and b that normalizeString leaves as they are,
\* stringsSimilar(a, b) is true exactly when a = b, or one is a substring of
\* the other, or the words the two have in common are at least 0.8 of the
\* larger of the two word sets; 3 words of 4 in common is not enough, 4 of 5
\* is.
C33_SimilarAsDocumented ==
    (/\ rOut # <<>>
     /\ rOut[1].op = "similar"
     /\ normalizeString(rIn[1].a) = rIn[1].a
     /\ normalizeString(rIn[1].b) = rIn[1].b) =>
        /\ rOut[1].value <=> SimilarAsDocumented(rIn[1].a, rIn[1].b)
        /\ (/\ rIn[1].a = <<"a", " ", "b", " ", "c", " ", "d">>
            /\ rIn[1].b = <<"a", " ", "b", " ", "c", " ", "x">>) => ~rOut[1].value
        /\ (rIn[1].a = ABCDE /\ rIn[1].b = ABCDX) => rOut[1].value

\* stringsSimilar("a b c d", "a b c x") returned false
C33_Witness ==
    /\ rOut # <<>>
    /\ rOut[1].op = "similar"
    /\ rIn[1].a = <<"a", " ", "b", " ", "c", " ", "d">>
    /\ rIn[1].b = <<"a", " ", "b", " ", "c", " ", "x">>
    /\ ~rOut[1].value

\* the letters and digits of s, in order
RECURSIVE LettersAndDigits(_)
LettersAndDigits(s) ==
    IF s = <<>> THEN <<>>
    ELSE IF Head(s) \in Range(UpperLetters) \cup Range(LowerLetters) \cup Digits
         THEN <<Head(s)>> \o LettersAndDigits(Tail(s))
         ELSE LettersAndDigits(Tail(s))

\* out is what the documentation says of normalize(s): lowercase letters,
\* digits and single spaces between them, the letters and digits of s in order
NormalizedAsDocumented(s, out) ==
    /\ \A i \in DOMAIN out : out[i] \in Range(LowerLetters) \cup Digits \cup {" "}
    /\ \A i \in 1..(Len(out) - 1) : ~(out[i] = " " /\ out[i + 1] = " ")
    /\ out # <<>> => (out[1] # " " /\ out[Len(out)] # " ")
    /\ LettersAndDigits(out) = LowerAndStrip(LettersAndDigits(s))

\* C34: for every string s, normalizeString(s) has no uppercase letter, no
\* punctuation character, the underscore included, no two white space
\* characters in a row and no white space at its ends, and it has the
\* letters and digits of s in their order.
C34_NormalizedAsDocumented ==
    (rOut # <<>> /\ rOut[1].op = "normalize") =>
        /\ NormalizedAsDocumented(rIn[1].a, rOut[1].a)
        /\ NormalizedAsDocumented(rIn[1].b, rOut[1].b)

\* the candidate's title and artist both normalize to the empty string
NormalizesToNothing(candidate) ==
    /\ normalizeString(candidate.title) = <<>>
    /\ normalizeString(candidate.artistName) = <<>>

\* C35: stringsSimilar is true of the empty string and the normalized title
\* or artist of any input, in either order of the arguments; a candidate of
\* the text search whose title and artist normalize to the empty string is
\* returned as the match when no candidate ranked before it passes the
\* similarity test, whatever the input title and artist.
C35_EmptyCandidateMatches ==
    ResolverReturned =>
        /\ \A s \in {normalizeString(rIn[1].args.title),
                     normalizeString(rIn[1].args.artist)} :
              stringsSimilar(s, <<>>) /\ stringsSimilar(<<>>, s)
        /\ SearchReturnedSome =>
              LET results == rIn[1].searchAnswer.results
              IN  \A i \in DOMAIN results :
                      (/\ NormalizesToNothing(results[i])
                       /\ \A j \in 1..(i - 1) : ~Resembles(rIn[1].args, results[j])) =>
                          MatchedWith(results[i])

\* the first candidate resembles the input in the title only, the second is
\* "!" by "?", and the second is returned
C35_Witness ==
    /\ ResolverReturned
    /\ SearchReturnedSome
    /\ rIn[1].searchAnswer.results = <<EntryTitleOnly, EntryBlank>>
    /\ rIn[1].args.title = TitleAbC
    /\ rOut[1].result.matched
    /\ rOut[1].result.appleMusicId = "am4"

\* how often the mystery card occurs in items
MysteryCards(items) == Len(SelectSeq(items, LAMBDA id : id = MYSTERY_CARD_ID))

\* items without the mystery card, in order
OtherCards(items) == SelectSeq(items, LAMBDA id : id # MYSTERY_CARD_ID)

\* C36: dnd.items holds MYSTERY_CARD_ID at most once after any sequence of
\* resetDndState, insertMysteryCard and removeMysteryCard; insertMysteryCard
\* leaves the store as it is when the card is in dnd.items and otherwise
\* puts it in once, between the other items; removeMysteryCard leaves
\* dnd.items without the card and with the other items in their order.
C36_OneMysteryCard ==
    [][/\ MysteryCards(store'.dnd.items) <= 1
       /\ lastCall'.op = "insertMysteryCard" =>
             IF MysteryCards(store.dnd.items) > 0
             THEN store' = store
             ELSE /\ MysteryCards(store'.dnd.items) = 1
                  /\ OtherCards(store'.dnd.items) = store.dnd.items
       /\ lastCall'.op = "removeMysteryCard" =>
             /\ MysteryCards(store'.dnd.items) = 0
             /\ store'.dnd.items = OtherCards(store.dnd.items)]_vars

\* insertMysteryCard was called on the items card, mystery card, card, which
\* a reset had computed for a placed card, and left them as they were
C36_Witness ==
    /\ lastCall.op = "insertMysteryCard"
    /\ lastCall.index = 0
    /\ store.dnd.items = <<"c1", MYSTERY_CARD_ID, "c2">>
    /\ ~store.dnd.wasExternalDrag

\* C37: action.loading is true whenever a call of wrapAction is pending,
\* also when two calls overlap, and false when calls were made and all of
\* them have settled.
C37_LoadingWhilePending ==
    /\ (\E w \in WrapIds : wrapped[w] = "pending") => store.action.loading
    /\ (/\ \E w \in WrapIds : wrapped[w] # "none"
        /\ \A w \in WrapIds : wrapped[w] # "pending") => ~store.action.loading

====
